---- MODULE Spec2Model ----
(***************************************************************************)
(* Model of graph-server: the redis-backed change queue, the worker loop   *)
(* (src/workers/__init__.py), the mutation rules (src/workers/actions.py)  *)
(* and the archive codec (src/utils/compression.py).                       *)
(*                                                                         *)
(* Conventions.  A Python dict is a TLA+ function from its keys; a Python   *)
(* Optional is a sequence of length 0 (None) or 1; an nx.DiGraph is a       *)
(* record of its node list and edge list in insertion order; a raised      *)
(* exception is a result record with ok = FALSE.                           *)
(***************************************************************************)
EXTENDS Integers, Sequences, FiniteSets, TLC

(***************************************************************************)
(* Bounds of the model                                                     *)
(***************************************************************************)
MaxPush == 2
MaxStops == 1
MaxApply == 3
MaxTimestamp == 2
MaxInstances == 4
PoisonAfter == 3
MaxLeft == 2
MaxTruncate == 1

(***************************************************************************)
(* Program constants                                                       *)
(***************************************************************************)
OneYear == 31536000
max_retries == 3
lock_max_retries == 5

None == << >>
Some(x) == << x >>
IsNone(o) == Len(o) = 0
Val(o) == o[1]

EmptyDict == [k \in {} |-> 0]

\* dict.update / {**old, **new}: keys of new override keys of old
DictUpdate(old, new) ==
  [k \in (DOMAIN old) \cup (DOMAIN new) |-> IF k \in DOMAIN new THEN new[k] ELSE old[k]]

DictWithout(d, ks) == [k \in (DOMAIN d) \ ks |-> d[k]]

\* dict.get(key, default)
DictGet(d, key, default) == IF key \in DOMAIN d THEN d[key] ELSE default

RECURSIVE SeqFilter(_, _, _)
\* the elements s[i] with i in keep, in order
SeqFilter(s, keep, i) ==
  IF i > Len(s) THEN << >>
  ELSE (IF i \in keep THEN << s[i] >> ELSE << >>) \o SeqFilter(s, keep, i + 1)

Range(s) == { s[i] : i \in DOMAIN s }

(***************************************************************************)
(* nx.DiGraph                                                              *)
(***************************************************************************)
DiGraph == [nodes |-> << >>, edges |-> << >>]

NodeIds(g) == { g.nodes[i].id : i \in DOMAIN g.nodes }
has_node(g, n) == n \in NodeIds(g)
NodeIndex(g, n) == CHOOSE i \in DOMAIN g.nodes : g.nodes[i].id = n
NodeAttrs(g, n) == g.nodes[NodeIndex(g, n)].attrs

has_edge(g, s, t) == \E i \in DOMAIN g.edges : g.edges[i].source = s /\ g.edges[i].target = t
EdgeIndex(g, s, t) == CHOOSE i \in DOMAIN g.edges : g.edges[i].source = s /\ g.edges[i].target = t
get_edge_data(g, s, t) == g.edges[EdgeIndex(g, s, t)].attrs

\* add_node that appends a node even when the graph already holds the id
add_node_appends(g, n, attrs) ==
  [g EXCEPT !.nodes = Append(@, [id |-> n, attrs |-> attrs])]

\* G.add_node(n, **attrs): a new node goes last, an existing one is updated in place
add_node(g, n, attrs) ==
  IF has_node(g, n)
  THEN [g EXCEPT !.nodes[NodeIndex(g, n)].attrs = DictUpdate(@, attrs)]
  ELSE [g EXCEPT !.nodes = Append(@, [id |-> n, attrs |-> attrs])]

\* G.add_edge(s, t, **attrs): missing endpoints are created without attributes
add_edge(g, s, t, attrs) ==
  LET g1 == add_node(g, s, EmptyDict)
      g2 == add_node(g1, t, EmptyDict)
  IN IF has_edge(g2, s, t)
     THEN [g2 EXCEPT !.edges[EdgeIndex(g2, s, t)].attrs = DictUpdate(@, attrs)]
     ELSE [g2 EXCEPT !.edges = Append(@, [source |-> s, target |-> t, attrs |-> attrs])]

\* a removal that clears every edge of the graph
remove_edge_clears(g, s, t) == [g EXCEPT !.edges = << >>]

remove_edge(g, s, t) ==
  [g EXCEPT !.edges = SeqFilter(@, { i \in DOMAIN @ : ~(@[i].source = s /\ @[i].target = t) }, 1)]

\* remove_nodes_from that leaves the edges of the removed nodes in place
remove_nodes_from_keeps_edges(g, ns) ==
  [nodes |-> SeqFilter(g.nodes, { i \in DOMAIN g.nodes : g.nodes[i].id \notin ns }, 1),
   edges |-> g.edges]

\* G.remove_nodes_from(ns): the nodes and every edge that touches them
remove_nodes_from(g, ns) ==
  [nodes |-> SeqFilter(g.nodes, { i \in DOMAIN g.nodes : g.nodes[i].id \notin ns }, 1),
   edges |-> SeqFilter(g.edges, { i \in DOMAIN g.edges :
                                   g.edges[i].source \notin ns /\ g.edges[i].target \notin ns }, 1)]

remove_node(g, n) == remove_nodes_from(g, {n})

Successors(g, ns) == { g.edges[i].target : i \in { j \in DOMAIN g.edges : g.edges[j].source \in ns } }

RECURSIVE Reach(_, _)
Reach(g, ns) ==
  LET more == ns \cup Successors(g, ns)
  IN IF more = ns THEN ns ELSE Reach(g, more)

\* nx.descendants(G, n): the nodes reachable from n, n itself excluded
descendants(g, n) == Reach(g, {n}) \ {n}

(***************************************************************************)
(* json_graph.node_link_data / node_link_graph (edges="links")             *)
(***************************************************************************)
node_link_data(g) ==
  [nodes |-> [i \in DOMAIN g.nodes |-> DictUpdate(g.nodes[i].attrs, [id |-> g.nodes[i].id])],
   links |-> [i \in DOMAIN g.edges |->
                DictUpdate(g.edges[i].attrs,
                           [source |-> g.edges[i].source, target |-> g.edges[i].target])]]

RECURSIVE LinkGraphNodes(_, _, _)
LinkGraphNodes(g, nodes, i) ==
  IF i > Len(nodes) THEN g
  ELSE LinkGraphNodes(add_node(g, nodes[i].id, DictWithout(nodes[i], {"id"})), nodes, i + 1)

RECURSIVE LinkGraphEdges(_, _, _)
LinkGraphEdges(g, links, i) ==
  IF i > Len(links) THEN g
  ELSE LinkGraphEdges(add_edge(g, links[i].source, links[i].target,
                               DictWithout(links[i], {"source", "target"})), links, i + 1)

node_link_graph(doc) == LinkGraphEdges(LinkGraphNodes(DiGraph, doc.nodes, 1), doc.links, 1)

(***************************************************************************)
(* Instance reconciliation                                                 *)
(***************************************************************************)
find_nodes_with_property(graph, key, value) ==
  SelectSeq(graph.nodes, LAMBDA n : key \in DOMAIN n.attrs /\ n.attrs[key] = value)

\* the sort key of the eviction: expiry, else created_at, else 0
EvictKey(n) == DictGet(n.attrs, "expiry", DictGet(n.attrs, "created_at", 0))

\* sorted(nodes, key=...)[0]: sorted is stable, so among equal keys the node
\* that comes first in the graph's node order is taken
FirstSorted(cands) ==
  LET i == CHOOSE j \in DOMAIN cands :
             /\ \A k \in DOMAIN cands : EvictKey(cands[j]) <= EvictKey(cands[k])
             /\ \A k \in 1..(j - 1) : EvictKey(cands[k]) > EvictKey(cands[j])
  IN cands[i]

RECURSIVE RemoveExcess(_, _, _)
RemoveExcess(state_data, parent_id, excess_count) ==
  IF excess_count = 0 THEN state_data
  ELSE LET nodes_to_remove == find_nodes_with_property(state_data, "parent_id", parent_id)
           node_to_remove == FirstSorted(nodes_to_remove)
       IN RemoveExcess(remove_node(state_data, node_to_remove.id), parent_id, excess_count - 1)

\* str(uuid.uuid4()): the first id of the supply uuids that the graph does not hold
uuid4(state_data, uuids) ==
  uuids[CHOOSE i \in DOMAIN uuids :
          /\ uuids[i] \notin NodeIds(state_data)
          /\ \A j \in 1..(i - 1) : uuids[j] \in NodeIds(state_data)]

RECURSIVE AddInstances(_, _, _, _, _, _, _)
AddInstances(state_data, parent_id, type, created_at, expiry, n, uuids) ==
  IF n = 0 THEN state_data
  ELSE AddInstances(
         add_node(state_data, uuid4(state_data, uuids),
                  [parent_id |-> parent_id, node_type |-> type,
                   created_at |-> created_at, expiry |-> expiry]),
         parent_id, type, created_at, expiry, n - 1, uuids)

\* update_state_instances that adds target_count instances whenever the parent
\* has too few, instead of the difference
update_state_instances_adds_target(state_data, parent_id, type, target_count, created_at, expiry, uuids) ==
  LET exp == IF IsNone(expiry) THEN created_at + OneYear ELSE Val(expiry)
      current_count == Len(find_nodes_with_property(state_data, "parent_id", parent_id))
  IN IF current_count > target_count
     THEN IF target_count < 0
          THEN [ok |-> FALSE, state |-> state_data]
          ELSE [ok |-> TRUE,
                state |-> RemoveExcess(state_data, parent_id, current_count - target_count)]
     ELSE IF current_count < target_count
          THEN [ok |-> TRUE,
                state |-> AddInstances(state_data, parent_id, type, created_at, exp,
                                       target_count, uuids)]
          ELSE [ok |-> TRUE, state |-> state_data]

\* update_state_instances that drops the parent's instances and creates
\* target_count new ones
update_state_instances_rebuilds(state_data, parent_id, type, target_count, created_at, expiry, uuids) ==
  LET exp == IF IsNone(expiry) THEN created_at + OneYear ELSE Val(expiry)
      current_count == Len(find_nodes_with_property(state_data, "parent_id", parent_id))
  IN IF target_count < 0
     THEN [ok |-> FALSE, state |-> state_data]
     ELSE [ok |-> TRUE,
           state |-> AddInstances(RemoveExcess(state_data, parent_id, current_count),
                                  parent_id, type, created_at, exp, target_count, uuids)]

\* update_state_instances; expiry is an Optional.  A target below zero asks for
\* more removals than there are instances: sorted([])[0] raises IndexError.
update_state_instances(state_data, parent_id, type, target_count, created_at, expiry, uuids) ==
  LET exp == IF IsNone(expiry) THEN created_at + OneYear ELSE Val(expiry)
      current_count == Len(find_nodes_with_property(state_data, "parent_id", parent_id))
  IN IF current_count > target_count
     THEN IF target_count < 0
          THEN [ok |-> FALSE, state |-> state_data]
          ELSE [ok |-> TRUE,
                state |-> RemoveExcess(state_data, parent_id, current_count - target_count)]
     ELSE IF current_count < target_count
          THEN [ok |-> TRUE,
                state |-> AddInstances(state_data, parent_id, type, created_at, exp,
                                       target_count - current_count, uuids)]
          ELSE [ok |-> TRUE, state |-> state_data]

(***************************************************************************)
(* The mutation rules of src/workers/actions.py.  Each returns              *)
(* [ok, schema, state]; ok = FALSE stands for the raised exception, and     *)
(* the caller's graphs are then untouched (the rules work on deep copies).  *)
(***************************************************************************)
\* a rule that logs the error and returns the graphs it was given
Raise_returns(schema_data, state_data) == [ok |-> TRUE, schema |-> schema_data, state |-> state_data]
Raise(schema_data, state_data) == [ok |-> FALSE, schema |-> schema_data, state |-> state_data]
Return(schema, state) == [ok |-> TRUE, schema |-> schema, state |-> state]

IsEdgePayload(payload) == "source_id" \in DOMAIN payload /\ "target_id" \in DOMAIN payload

\* the Optional expiry handed to update_state_instances
ExpiryOf(properties) ==
  IF "expiry" \in DOMAIN properties THEN Some(properties["expiry"]) ELSE None

process_schema_create(payload, schema_data, state_data, timestamp, uuids) ==
  IF IsEdgePayload(payload)
  THEN LET source_id == payload["source_id"]
           target_id == payload["target_id"]
       IN IF ~has_node(schema_data, source_id) \/ ~has_node(schema_data, target_id)
          THEN Raise(schema_data, state_data)
          ELSE IF "edge_type" \notin DOMAIN payload
          THEN Raise(schema_data, state_data)
          ELSE LET edge_attrs == DictUpdate([relationship_type |-> payload["edge_type"]],
                                            DictGet(payload, "properties", EmptyDict))
               IN Return(add_edge(schema_data, source_id, target_id, edge_attrs), state_data)
  ELSE IF {"node_id", "node_type", "properties"} \subseteq DOMAIN payload
  THEN LET node_id == payload["node_id"]
           properties == payload["properties"]
           node_attrs == DictUpdate([node_type |-> payload["node_type"]], properties)
           schema == add_node(schema_data, node_id, node_attrs)
       IN IF "units_in_chain" \in DOMAIN properties
          THEN LET r == update_state_instances(state_data, node_id, payload["node_type"],
                                               properties["units_in_chain"], timestamp,
                                               ExpiryOf(properties), uuids)
               IN IF r.ok THEN Return(schema, r.state) ELSE Raise(schema_data, state_data)
          ELSE Return(schema, state_data)
  ELSE Raise(schema_data, state_data)

\* the loop without its break: it counts up to max_retries whatever it finds
EdgeRetry_no_break(schema, source_id, target_id, retry_count) ==
  IF retry_count < max_retries THEN max_retries ELSE retry_count

RECURSIVE EdgeRetry(_, _, _, _)
\* the retry loop of the edge update: the number of failed existence checks
EdgeRetry(schema, source_id, target_id, retry_count) ==
  IF retry_count < max_retries
  THEN IF has_edge(schema, source_id, target_id)
       THEN retry_count
       ELSE EdgeRetry(schema, source_id, target_id, retry_count + 1)
  ELSE retry_count

process_schema_update(payload, schema_data, state_data, timestamp, uuids) ==
  IF IsEdgePayload(payload)
  THEN IF "edge_type" \notin DOMAIN payload
       THEN Raise(schema_data, state_data)
       ELSE LET source_id == payload["source_id"]
                target_id == payload["target_id"]
                retry_count == EdgeRetry(schema_data, source_id, target_id, 0)
                properties == DictGet(payload, "properties", EmptyDict)
            IN IF retry_count = max_retries
               THEN Raise(schema_data, state_data)
               ELSE IF DOMAIN properties # {}
               THEN Return(add_edge(schema_data, source_id, target_id,
                                    DictUpdate(get_edge_data(schema_data, source_id, target_id),
                                               properties)),
                           state_data)
               ELSE Return(schema_data, state_data)
  ELSE IF "node_id" \notin DOMAIN payload
  THEN Raise(schema_data, state_data)
  ELSE LET node_id == payload["node_id"]
           properties == DictGet(payload, "properties", EmptyDict)
       IN IF ~has_node(schema_data, node_id)
          THEN Raise(schema_data, state_data)
          ELSE LET schema == add_node(schema_data, node_id, properties)
               IN IF "units_in_chain" \in DOMAIN properties
                  THEN IF "node_type" \notin DOMAIN NodeAttrs(schema, node_id)
                       THEN Raise(schema_data, state_data)
                       ELSE LET r == update_state_instances(
                                       state_data, node_id, NodeAttrs(schema, node_id)["node_type"],
                                       properties["units_in_chain"], timestamp,
                                       ExpiryOf(properties), uuids)
                            IN IF r.ok THEN Return(schema, r.state)
                               ELSE Raise(schema_data, state_data)
                  ELSE Return(schema, state_data)

process_schema_delete(payload, schema_data, state_data, timestamp, uuids) ==
  IF IsEdgePayload(payload)
  THEN LET source_id == payload["source_id"]
           target_id == payload["target_id"]
       IN IF ~has_edge(schema_data, source_id, target_id)
          THEN Raise(schema_data, state_data)
          ELSE IF "edge_type" \in DOMAIN payload
          THEN IF "relationship_type" \in DOMAIN get_edge_data(schema_data, source_id, target_id)
                  /\ get_edge_data(schema_data, source_id, target_id)["relationship_type"]
                       = payload["edge_type"]
               THEN Return(remove_edge(schema_data, source_id, target_id), state_data)
               ELSE Return(schema_data, state_data)
          ELSE Return(remove_edge(schema_data, source_id, target_id), state_data)
  ELSE IF "node_id" \notin DOMAIN payload
  THEN Raise(schema_data, state_data)
  ELSE LET node_id == payload["node_id"]
       IN IF ~has_node(schema_data, node_id)
          THEN Raise(schema_data, state_data)
          ELSE LET schema == IF DictGet(payload, "cascade", FALSE)
                             THEN remove_nodes_from(schema_data, descendants(schema_data, node_id))
                             ELSE schema_data
                   node_properties == NodeAttrs(schema, node_id)
               IN IF "units_in_chain" \in DOMAIN node_properties
                  THEN IF "node_type" \notin DOMAIN node_properties
                       THEN Raise(schema_data, state_data)
                       ELSE LET r == update_state_instances(
                                       state_data, node_id, node_properties["node_type"],
                                       0, timestamp, None, uuids)
                            IN Return(remove_node(schema, node_id), r.state)
                  ELSE Return(remove_node(schema, node_id), state_data)

RECURSIVE DirectInstances(_, _, _, _, _)
\* the loop of process_schema_create_direct over schema.nodes(data=True)
DirectInstances(schema, state, timestamp, uuids, i) ==
  IF i > Len(schema.nodes) THEN [ok |-> TRUE, state |-> state]
  ELSE LET node_id == schema.nodes[i].id
           node_data == schema.nodes[i].attrs
       IN IF "units_in_chain" \in DOMAIN node_data
          THEN LET r == update_state_instances(
                          state, node_id, DictGet(node_data, "node_type", "unknown"),
                          node_data["units_in_chain"], timestamp, ExpiryOf(node_data), uuids)
               IN IF r.ok THEN DirectInstances(schema, r.state, timestamp, uuids, i + 1)
                  ELSE [ok |-> FALSE, state |-> state]
          ELSE DirectInstances(schema, state, timestamp, uuids, i + 1)

\* a direct create that adds the payload's document to the schema it was given
process_schema_create_direct_merges(payload, schema_data, state_data, timestamp, uuids) ==
  LET schema == LinkGraphEdges(LinkGraphNodes(schema_data, payload.nodes, 1), payload.links, 1)
      r == DirectInstances(schema, state_data, timestamp, uuids, 1)
  IN IF r.ok THEN Return(schema, r.state) ELSE Raise(schema_data, state_data)

process_schema_create_direct(payload, schema_data, state_data, timestamp, uuids) ==
  LET schema == node_link_graph(payload)
      r == DirectInstances(schema, state_data, timestamp, uuids, 1)
  IN IF r.ok THEN Return(schema, r.state) ELSE Raise(schema_data, state_data)

RECURSIVE BulkApply_last_first(_, _, _, _, _, _, _)
\* a loop over reversed(change_data["payload"])
BulkApply_last_first(rule, payloads, schema_data, state_data, timestamp, uuids, i) ==
  IF i > Len(payloads) THEN Return(schema_data, state_data)
  ELSE LET payload == payloads[Len(payloads) + 1 - i]
           r == CASE rule = 1 -> process_schema_create(payload, schema_data, state_data,
                                                        timestamp, uuids)
                  [] rule = 2 -> process_schema_update(payload, schema_data, state_data,
                                                        timestamp, uuids)
                  [] OTHER -> process_schema_delete(payload, schema_data, state_data,
                                                    timestamp, uuids)
       IN IF r.ok
          THEN BulkApply_last_first(rule, payloads, r.schema, r.state, timestamp, uuids, i + 1)
          ELSE r

RECURSIVE BulkApply(_, _, _, _, _, _, _)
\* the for loop of a bulk_* action: rule 1 = create, 2 = update, 3 = delete
BulkApply(rule, payloads, schema_data, state_data, timestamp, uuids, i) ==
  IF i > Len(payloads) THEN Return(schema_data, state_data)
  ELSE LET r == CASE rule = 1 -> process_schema_create(payloads[i], schema_data, state_data,
                                                        timestamp, uuids)
                  [] rule = 2 -> process_schema_update(payloads[i], schema_data, state_data,
                                                        timestamp, uuids)
                  [] OTHER -> process_schema_delete(payloads[i], schema_data, state_data,
                                                    timestamp, uuids)
       IN IF r.ok THEN BulkApply(rule, payloads, r.schema, r.state, timestamp, uuids, i + 1)
          ELSE r

\* the dispatch on change_data["action"] in process_schema_change
Dispatch(change_data, schema_data, state_data, timestamp, uuids) ==
  LET action == change_data["action"]
      payload == change_data["payload"]
  IN CASE action = "create" ->
            process_schema_create(payload, schema_data, state_data, timestamp, uuids)
       [] action = "update" ->
            process_schema_update(payload, schema_data, state_data, timestamp, uuids)
       [] action = "delete" ->
            process_schema_delete(payload, schema_data, state_data, timestamp, uuids)
       [] action = "bulk_create" ->
            BulkApply(1, payload, schema_data, state_data, timestamp, uuids, 1)
       [] action = "bulk_update" ->
            BulkApply(2, payload, schema_data, state_data, timestamp, uuids, 1)
       [] action = "bulk_delete" ->
            BulkApply(3, payload, schema_data, state_data, timestamp, uuids, 1)
       [] action = "direct_create" ->
            process_schema_create_direct(payload, schema_data, state_data, timestamp, uuids)
       [] OTHER -> Return(schema_data, state_data)

(***************************************************************************)
(* The archive codec of src/utils/compression.py.  The verbatim fields     *)
(* directed, multigraph and graph of a document are constant and left out. *)
(***************************************************************************)
EmptyDoc == [nodes |-> << >>, links |-> << >>]

\* a dict of lists keyed by the value of field: the key list is that of the
\* first record of each type, the value list holds every record of the type
TypesOf(recs, field) == { recs[i][field] : i \in DOMAIN recs }
FirstOfType(recs, field, t) ==
  recs[CHOOSE i \in DOMAIN recs :
         recs[i][field] = t /\ \A j \in 1..(i - 1) : recs[j][field] # t]
KeysOfType(recs, field, t) == DOMAIN FirstOfType(recs, field, t)
OfType(recs, field, t) == SelectSeq(recs, LAMBDA r : r[field] = t)
ValuesOf(rec, keys) == [k \in keys |-> rec[k]]

\* node["node_type"], link["relationship_type"] and [rec[key] for key in keys]
\* raise KeyError on a record that lacks the key
CompressRaises(graph_data) ==
  \/ \E i \in DOMAIN graph_data.nodes : "node_type" \notin DOMAIN graph_data.nodes[i]
  \/ \E i \in DOMAIN graph_data.links : "relationship_type" \notin DOMAIN graph_data.links[i]
  \/ \E i \in DOMAIN graph_data.nodes :
        ~(KeysOfType(graph_data.nodes, "node_type", graph_data.nodes[i]["node_type"])
            \subseteq DOMAIN graph_data.nodes[i])
  \/ \E i \in DOMAIN graph_data.links :
        ~(KeysOfType(graph_data.links, "relationship_type",
                     graph_data.links[i]["relationship_type"])
            \subseteq DOMAIN graph_data.links[i])

compress_graph_json(graph_data) ==
  LET nodes == graph_data.nodes
      links == graph_data.links
  IN [node_types |-> [t \in TypesOf(nodes, "node_type") |-> KeysOfType(nodes, "node_type", t)],
      node_values |-> [t \in TypesOf(nodes, "node_type") |->
                         LET of == OfType(nodes, "node_type", t)
                         IN [i \in DOMAIN of |->
                               ValuesOf(of[i], KeysOfType(nodes, "node_type", t))]],
      relationship_types |-> [t \in TypesOf(links, "relationship_type") |->
                                KeysOfType(links, "relationship_type", t)],
      link_values |-> [i \in DOMAIN links |->
                         ValuesOf(links[i], KeysOfType(links, "relationship_type",
                                                       links[i]["relationship_type"]))]]

RECURSIVE DecompressNodes(_, _)
\* the node loop of decompress_graph_json: per type, dict(zip(keys, values))
\* for every value list of the type
DecompressNodes(compressed_data, types) ==
  IF types = {} THEN << >>
  ELSE LET node_type == CHOOSE t \in types : TRUE
           keys == compressed_data.node_types[node_type]
           values == compressed_data.node_values[node_type]
       IN [i \in DOMAIN values |-> [k \in keys |-> values[i][k]]]
            \o DecompressNodes(compressed_data, types \ {node_type})

\* rel_type = values[0]: in the documents node_link_data writes, the first key
\* of a link is relationship_type (the edge attributes come before source and
\* target, and the rules put relationship_type first among them)
decompress_graph_json(compressed_data) ==
  [nodes |-> DecompressNodes(compressed_data, DOMAIN compressed_data.node_types),
   links |-> [i \in DOMAIN compressed_data.link_values |->
                LET values == compressed_data.link_values[i]
                    rel_type == values["relationship_type"]
                    keys == compressed_data.relationship_types[rel_type]
                IN [k \in keys |-> values[k]]]]

(***************************************************************************)
(* The files of one version: live_schema.json, live_state.json and the two *)
(* archive directories keyed by timestamp.  A file opened with mode "w" is  *)
(* empty (not decodable) until json.dump has written it.                   *)
(***************************************************************************)
Timestamps == 0..MaxTimestamp

NoFile == [exists |-> FALSE, complete |-> FALSE, data |-> EmptyDoc]
Truncated == [exists |-> TRUE, complete |-> FALSE, data |-> EmptyDoc]
FileOf(data) == [exists |-> TRUE, complete |-> TRUE, data |-> data]
Readable(f) == f.exists /\ f.complete

\* what a reader of the file decodes: a missing or undecodable file gives no graph
Decoded(f) == IF Readable(f) THEN node_link_graph(f.data) ELSE DiGraph

EmptyDisk ==
  [live_schema |-> NoFile, live_state |-> NoFile,
   schema_archive |-> [t \in Timestamps |-> NoFile],
   state_archive |-> [t \in Timestamps |-> NoFile]]

\* safe_write_json(filepath, data) in its two effects: open(filepath, "w"), json.dump
PutFile(d, is_live, is_schema, ts, f) ==
  IF is_live
  THEN IF is_schema THEN [d EXCEPT !.live_schema = f] ELSE [d EXCEPT !.live_state = f]
  ELSE IF is_schema THEN [d EXCEPT !.schema_archive[ts] = f]
       ELSE [d EXCEPT !.state_archive[ts] = f]

\* "if timestamp:" in save_graph: None and 0 both take the live branch
Truthy(timestamp) == ~IsNone(timestamp) /\ Val(timestamp) # 0

\* save_graph raises when the archive branch cannot compress the graph
SaveRaises(graph, timestamp) == Truthy(timestamp) /\ CompressRaises(node_link_data(graph))

SaveContent(graph, timestamp) ==
  IF Truthy(timestamp) THEN compress_graph_json(node_link_data(graph))
  ELSE node_link_data(graph)

SaveOpen(d, timestamp, is_schema) ==
  PutFile(d, ~Truthy(timestamp), is_schema, IF Truthy(timestamp) THEN Val(timestamp) ELSE 0,
          Truncated)

SaveWrite(d, graph, timestamp, is_schema) ==
  PutFile(d, ~Truthy(timestamp), is_schema, IF Truthy(timestamp) THEN Val(timestamp) ELSE 0,
          FileOf(SaveContent(graph, timestamp)))

\* save_graph as a whole
save_graph(d, graph, timestamp, is_schema) ==
  IF SaveRaises(graph, timestamp) THEN [ok |-> FALSE, disk |-> d]
  ELSE [ok |-> TRUE, disk |-> SaveWrite(SaveOpen(d, timestamp, is_schema), graph, timestamp,
                                        is_schema)]

\* create_initial_schema_and_state overwrites both live files with empty graphs
create_initial_schema_and_state(d) ==
  [d EXCEPT !.live_schema = FileOf(node_link_data(DiGraph)),
            !.live_state = FileOf(node_link_data(DiGraph))]

\* FileNotFoundError or JSONDecodeError: create the initial files and load again
load_live_schema(d) ==
  IF Readable(d.live_schema)
  THEN [disk |-> d, graph |-> node_link_graph(d.live_schema.data)]
  ELSE [disk |-> create_initial_schema_and_state(d), graph |-> DiGraph]

load_live_state(d) ==
  IF Readable(d.live_state)
  THEN [disk |-> d, graph |-> node_link_graph(d.live_state.data)]
  ELSE [disk |-> create_initial_schema_and_state(d), graph |-> DiGraph]

\* the loads of process_schema_change: schema first, state from what that left
LoadState(s, t) == [disk |-> t.disk, schema |-> s.graph, state |-> t.graph]
LoadSchema(s) == LoadState(s, load_live_state(s.disk))
LoadLive(d) == LoadSchema(load_live_schema(d))

(***************************************************************************)
(* process_schema_change as one function of the version's files and the    *)
(* global CURRENT_TIMESTAMP: load, archive roll-forward, dispatch, persist. *)
(* The worker's step actions below run the same pieces one at a time.      *)
(***************************************************************************)
\* the next save_graph call of a sequence: an exception in an earlier call
\* skips it
ThenSave(s, graph, timestamp, is_schema) ==
  IF s.ok THEN save_graph(s.disk, graph, timestamp, is_schema) ELSE s

\* the "if CURRENT_TIMESTAMP is None / elif timestamp != CURRENT_TIMESTAMP" block:
\* the first branch assigns the global before it saves, the second after
RollSaved(s, timestamp, current) ==
  [ok |-> s.ok, disk |-> s.disk,
   current |-> IF s.ok \/ IsNone(current) THEN Some(timestamp) ELSE current]

RollArchive(d, schema, state, timestamp, current) ==
  IF IsNone(current) \/ Val(current) # timestamp
  THEN RollSaved(ThenSave(save_graph(d, schema, Some(timestamp), TRUE),
                          state, Some(timestamp), FALSE),
                 timestamp, current)
  ELSE [ok |-> TRUE, disk |-> d, current |-> current]

\* the four save_graph calls after the dispatch
Persist(d, schema, state, current) ==
  ThenSave(ThenSave(ThenSave(save_graph(d, schema, None, TRUE), state, None, FALSE),
                    schema, current, TRUE),
           state, current, FALSE)

\* the return value: True after the last save, False from the except block
Returned(a, p) == [ok |-> p.ok, disk |-> p.disk, current |-> a.current]

Dispatched(a, r) ==
  IF ~r.ok THEN [ok |-> FALSE, disk |-> a.disk, current |-> a.current]
  ELSE Returned(a, Persist(a.disk, r.schema, r.state, a.current))

Rolled(change_data, l, a, uuids) ==
  IF ~a.ok THEN [ok |-> FALSE, disk |-> a.disk, current |-> a.current]
  ELSE Dispatched(a, Dispatch(change_data, l.schema, l.state, Val(a.current), uuids))

Loaded(change_data, l, current, uuids) ==
  Rolled(change_data, l,
         RollArchive(l.disk, l.schema, l.state, change_data["timestamp"], current), uuids)

process_schema_change(change_data, d, current, uuids) ==
  Loaded(change_data, LoadLive(d), current, uuids)

(***************************************************************************)
(* The program state                                                       *)
(***************************************************************************)
VARIABLES
  changes,                \* redis list "changes" (pending), head first
  changes_processing,     \* redis list "changes_processing" (in flight)
  disk,                   \* the files of every version
  CURRENT_TIMESTAMP,      \* module global of workers, an Optional
  PROCESSING_TIMESTAMPS,  \* module global of workers, dict version -> timestamp
  flock,                  \* holder of the exclusive lock on <version>/schema.lock, 0 = free
  threads_started,        \* how many main_worker threads the lifespan has started
  pc,                     \* per thread: its position in main_worker / process_schema_change
  change_data_raw,        \* per thread: the item it took (0 = none)
  schema_data,            \* per thread: local schema graph
  state_data,             \* per thread: local state graph
  saving,                 \* per thread: Optional timestamp argument of the save_graph under way
  process_result,         \* per thread: outcome of the last process_schema_change
  stops,                  \* number of process stops so far
  pushed,                 \* history: the items in the order producers pushed them
  applied,                \* history: the items in the order their apply returned True
  applies,                \* number of changes handed to process_schema_change directly
  before,                 \* history: per thread, the live graphs when it took the lock
  handled,                \* history: the change last handed to process_schema_change directly
  requeues,               \* history: per item, how often it was pushed back after a failure
  truncating,             \* Optional: the truncate request under way, with the items it read
  truncated,              \* history: what the last truncation read, and the pending list
                          \* before and after its execute
  truncates,              \* number of truncate requests so far
  write_lock_key,         \* redis key schema_lock:<version>:write exists
  read_count_key,         \* redis key schema_lock:<version>:read_count, an Optional integer
  task                    \* per task: its position in a read_lock / write_lock block

vars == << changes, changes_processing, disk, CURRENT_TIMESTAMP, PROCESSING_TIMESTAMPS,
           flock, threads_started, pc, change_data_raw, schema_data, state_data, saving,
           process_result, stops, pushed, applied, applies, before, handled, requeues,
           truncating, truncated, truncates, write_lock_key, read_count_key, task >>

\* the variables of the redis read/write lock
locks == << write_lock_key, read_count_key, task >>

Versions == {"v", "w"}
Threads == {1, 2}

\* the request tasks that use the lock of one version
Tasks == 1..3

\* the supply of fresh instance ids
UUIDs == [i \in 1..MaxInstances |-> i]

(***************************************************************************)
(* The items producers push: the JSON text of an envelope, named by number *)
(***************************************************************************)
Items == 1..4

\* bytes that json.loads rejects with JSONDecodeError
Malformed == {5}

\* JSON text that decodes to something other than an object (a list, a number):
\* json.loads succeeds, and .get on the value raises AttributeError
NonObject == {12}

\* an envelope whose version is null: change_data.get("version") is None
Unversioned == {6}

\* request bodies that the validators of Change refuse
Rejected == 7..11

\* envelopes of the bulk actions
BulkItems == 13..15

json_loads(item) ==
  CASE item = 1 -> [action |-> "create", type |-> "schema", timestamp |-> 2, version |-> "v",
                    payload |-> [node_id |-> "A", node_type |-> "Parts",
                                 properties |-> [units_in_chain |-> 1]]]
    [] item = 2 -> [action |-> "update", type |-> "schema", timestamp |-> 1, version |-> "v",
                    payload |-> [node_id |-> "A", properties |-> [units_in_chain |-> 2]]]
    [] item = 3 -> [action |-> "create", type |-> "schema", timestamp |-> 2, version |-> "v",
                    payload |-> [node_id |-> "B", node_type |-> "Parts",
                                 properties |-> EmptyDict]]
    [] item = 4 -> [action |-> "create", type |-> "schema", timestamp |-> 1, version |-> "w",
                    payload |-> [node_id |-> "A", node_type |-> "Parts",
                                 properties |-> [units_in_chain |-> 1]]]
    [] item = 6 -> [action |-> "create", type |-> "schema", timestamp |-> 1,
                    payload |-> [node_id |-> "A", node_type |-> "Parts",
                                 properties |-> [units_in_chain |-> 1]]]
    [] item = 7 -> [action |-> "create", type |-> "schema", timestamp |-> -1, version |-> "v",
                    payload |-> [node_id |-> "A", node_type |-> "Parts",
                                 properties |-> EmptyDict]]
    [] item = 8 -> [action |-> "bulk_create", type |-> "schema", timestamp |-> 1,
                    version |-> "v", payload |-> << >>]
    [] item = 9 -> [action |-> "create", type |-> "schema", timestamp |-> 1, version |-> "v",
                    payload |-> << [node_id |-> "A", node_type |-> "Parts",
                                    properties |-> EmptyDict] >>]
    [] item = 10 -> [action |-> "bulk_create", type |-> "schema", timestamp |-> 1,
                     version |-> "v",
                     payload |-> [node_id |-> "A", node_type |-> "Parts",
                                  properties |-> EmptyDict]]
    [] item = 11 -> [action |-> "create", type |-> "schema", timestamp |-> 1, version |-> "v",
                     payload |-> EmptyDict]
    [] item = 13 -> [action |-> "bulk_create", type |-> "schema", timestamp |-> 2,
                     version |-> "v",
                     payload |-> << [node_id |-> "A", node_type |-> "Parts",
                                     properties |-> [units_in_chain |-> 1]],
                                    [node_id |-> "B", node_type |-> "Parts",
                                     properties |-> EmptyDict] >>]
    [] item = 14 -> [action |-> "bulk_update", type |-> "schema", timestamp |-> 2,
                     version |-> "v",
                     payload |-> << [node_id |-> "A", properties |-> [units_in_chain |-> 2]],
                                    [node_id |-> "A", properties |-> [units_in_chain |-> 1]] >>]
    [] item = 15 -> [action |-> "bulk_delete", type |-> "schema", timestamp |-> 2,
                     version |-> "v",
                     payload |-> << [node_id |-> "B"], [node_id |-> "A"] >>]

\* the python type of the decoded payload: a JSON array is a list, an object a dict
PayloadIsList(item) == item \in {8, 9} \cup BulkItems

\* dict.get("version"): a null version and a missing key both give None
HasVersion(change_data) == "version" \in DOMAIN change_data

BulkActions == {"bulk_create", "bulk_update", "bulk_delete"}

\* the validators of Change: validate_timestamp and validate_payload raise,
\* validate_version only logs
validate_timestamp(item) == json_loads(item)["timestamp"] >= 0

validate_payload(item) ==
  IF json_loads(item)["action"] \in BulkActions
  THEN PayloadIsList(item) /\ DOMAIN json_loads(item)["payload"] # {}
  ELSE ~PayloadIsList(item) /\ DOMAIN json_loads(item)["payload"] # {}

validate_version(item) == TRUE

ChangeValidates(item) ==
  validate_timestamp(item) /\ validate_payload(item) /\ validate_version(item)

VersionOf(item) == json_loads(item)["version"]
TimestampOf(item) == json_loads(item)["timestamp"]

\* redis LREM key 0 value: every occurrence of value is removed
lrem(list, value) == SelectSeq(list, LAMBDA x : x # value)

\* the state after startup, apart from what redis holds in the main queue
Constructed ==
  /\ changes_processing = << >>
  /\ disk = [v \in Versions |-> EmptyDisk]
  /\ CURRENT_TIMESTAMP = None
  /\ PROCESSING_TIMESTAMPS = EmptyDict
  /\ flock = [v \in Versions |-> 0]
  /\ threads_started = 0
  /\ pc = [t \in Threads |-> "off"]
  /\ change_data_raw = [t \in Threads |-> 0]
  /\ schema_data = [t \in Threads |-> DiGraph]
  /\ state_data = [t \in Threads |-> DiGraph]
  /\ saving = [t \in Threads |-> None]
  /\ process_result = [t \in Threads |-> FALSE]
  /\ stops = 0
  /\ pushed = << >>
  /\ applied = << >>
  /\ applies = 0
  /\ before = [t \in Threads |-> [schema |-> DiGraph, state |-> DiGraph]]
  /\ handled = [rule |-> 0, timestamp |-> 0]
  /\ requeues = [item \in Items |-> 0]
  /\ truncating = None
  /\ truncated = [version |-> "", read |-> << >>, from |-> << >>, to |-> << >>]
  /\ truncates = 0
  /\ write_lock_key = FALSE
  /\ read_count_key = None
  /\ task = [k \in Tasks |-> [pc |-> "out", kind |-> "read", attempt |-> 0, yielded |-> FALSE]]

Init == changes = << >> /\ Constructed

(***************************************************************************)
(* Startup: lifespan (src/main.py) calls start_worker() and then starts a  *)
(* second thread on main_worker.  The app serves requests after that.      *)
(***************************************************************************)
start_worker ==
  /\ threads_started = 0
  /\ threads_started' = 1
  /\ pc' = [pc EXCEPT ![1] = "poll"]
  /\ UNCHANGED << locks, truncates, truncating, truncated, handled, requeues, changes, changes_processing, disk, CURRENT_TIMESTAMP, PROCESSING_TIMESTAMPS,
                  flock, change_data_raw, schema_data, state_data, saving, process_result,
                  stops, pushed, applied, applies, before >>

livestate_worker ==
  /\ threads_started = 1
  /\ threads_started' = 2
  /\ pc' = [pc EXCEPT ![2] = "poll"]
  /\ UNCHANGED << locks, truncates, truncating, truncated, handled, requeues, changes, changes_processing, disk, CURRENT_TIMESTAMP, PROCESSING_TIMESTAMPS,
                  flock, change_data_raw, schema_data, state_data, saving, process_result,
                  stops, pushed, applied, applies, before >>

\* another redis client appends bytes that are not an envelope to the main queue
rpush_raw(item) ==
  /\ threads_started = 2
  /\ Len(pushed) < MaxPush
  /\ changes' = Append(changes, item)
  /\ pushed' = Append(pushed, item)
  /\ UNCHANGED << locks, truncates, truncating, truncated, handled, requeues, changes_processing, disk, CURRENT_TIMESTAMP, PROCESSING_TIMESTAMPS, flock,
                  threads_started, pc, change_data_raw, schema_data, state_data, saving,
                  process_result, stops, applied, applies, before >>

\* queue_live_schema_update: the request body is parsed into a Change (a
\* ValidationError answers the request before the controller runs), then rpush
\* of the envelope's JSON.  Producers keep the timestamps of one version
\* non-decreasing.
queue_live_schema_update(item) ==
  /\ threads_started = 2
  /\ Len(pushed) < MaxPush
  /\ ChangeValidates(item)
  /\ item \in Items \cup BulkItems =>
        \A i \in DOMAIN pushed :
           (pushed[i] \in Items \cup BulkItems /\ VersionOf(pushed[i]) = VersionOf(item))
              => TimestampOf(pushed[i]) <= TimestampOf(item)
  /\ changes' = Append(changes, item)
  /\ pushed' = Append(pushed, item)
  /\ UNCHANGED << locks, truncates, truncating, truncated, handled, requeues, changes_processing, disk, CURRENT_TIMESTAMP, PROCESSING_TIMESTAMPS, flock,
                  threads_started, pc, change_data_raw, schema_data, state_data, saving,
                  process_result, stops, applied, applies, before >>

(***************************************************************************)
(* main_worker, one action per step that touches shared state              *)
(***************************************************************************)
\* redis_client.lmove(main_queue, processing_queue, "LEFT", "RIGHT"); an empty
\* list returns None and the loop polls again (a stuttering step).  For JSON
\* that is not an object, change_data.get raises AttributeError inside the try
\* block that catches only JSONDecodeError: the loop's "except Exception" logs,
\* sleeps and the thread polls again.
lmove(t) ==
  /\ pc[t] = "poll"
  /\ changes # << >>
  /\ changes' = Tail(changes)
  /\ changes_processing' = Append(changes_processing, Head(changes))
  /\ IF Head(changes) \in NonObject
     THEN UNCHANGED << change_data_raw, pc >>
     ELSE /\ change_data_raw' = [change_data_raw EXCEPT ![t] = Head(changes)]
          /\ pc' = [pc EXCEPT ![t] = IF Head(changes) \in Malformed THEN "invalid"
                                      ELSE "process_change"]
  /\ UNCHANGED << locks, truncates, truncating, truncated, handled, requeues, disk, CURRENT_TIMESTAMP, PROCESSING_TIMESTAMPS, flock, threads_started,
                  schema_data, state_data, saving, process_result, stops, pushed, applied,
                  applies, before >>

\* an except branch that sends the undecodable item back to the main queue
lrem_invalid_requeues(t) ==
  /\ pc[t] = "invalid"
  /\ changes_processing' = lrem(changes_processing, change_data_raw[t])
  /\ changes' = Append(changes, change_data_raw[t])
  /\ change_data_raw' = [change_data_raw EXCEPT ![t] = 0]
  /\ pc' = [pc EXCEPT ![t] = "poll"]
  /\ UNCHANGED << locks, truncates, truncating, truncated, handled, requeues, disk, CURRENT_TIMESTAMP, PROCESSING_TIMESTAMPS,
                  flock, threads_started, schema_data, state_data, saving, process_result,
                  stops, pushed, applied, applies, before >>

\* the except json.JSONDecodeError branch: lrem from the processing queue, continue
lrem_invalid(t) ==
  /\ pc[t] = "invalid"
  /\ changes_processing' = lrem(changes_processing, change_data_raw[t])
  /\ change_data_raw' = [change_data_raw EXCEPT ![t] = 0]
  /\ pc' = [pc EXCEPT ![t] = "poll"]
  /\ UNCHANGED << locks, truncates, truncating, truncated, handled, requeues, changes, disk, CURRENT_TIMESTAMP, PROCESSING_TIMESTAMPS,
                  flock, threads_started, schema_data, state_data, saving, process_result,
                  stops, pushed, applied, applies, before >>

Change(t) == json_loads(change_data_raw[t])

\* process_change up to the registration in PROCESSING_TIMESTAMPS; without a
\* version it returns False to main_worker
process_change(t) ==
  /\ pc[t] = "process_change"
  /\ IF HasVersion(Change(t))
     THEN /\ PROCESSING_TIMESTAMPS' =
               DictUpdate(PROCESSING_TIMESTAMPS,
                          (Change(t)["version"] :> Change(t)["timestamp"]))
          /\ pc' = [pc EXCEPT ![t] = "flock"]
          /\ UNCHANGED process_result
     ELSE /\ pc' = [pc EXCEPT ![t] = "requeue_lrem"]
          /\ process_result' = [process_result EXCEPT ![t] = FALSE]
          /\ UNCHANGED PROCESSING_TIMESTAMPS
  /\ UNCHANGED << locks, truncates, truncating, truncated, handled, requeues, changes, changes_processing, disk, CURRENT_TIMESTAMP, flock, threads_started,
                  change_data_raw, schema_data, state_data, saving, stops,
                  pushed, applied, applies, before >>

\* flock that does not wait for the holder (LOCK_SH in place of LOCK_EX)
acquire_lock_shared(t) ==
  /\ pc[t] = "flock"
  /\ flock' = [flock EXCEPT ![Change(t)["version"]] = t]
  /\ pc' = [pc EXCEPT ![t] = "load"]
  /\ before' = [before EXCEPT ![t] =
                  [schema |-> Decoded(disk[Change(t)["version"]].live_schema),
                   state |-> Decoded(disk[Change(t)["version"]].live_state)]]
  /\ UNCHANGED << locks, truncates, truncating, truncated, handled, requeues, changes, changes_processing, disk, CURRENT_TIMESTAMP, PROCESSING_TIMESTAMPS,
                  threads_started, change_data_raw, schema_data, state_data, saving,
                  process_result, stops, pushed, applied, applies >>

\* fcntl.flock(lock.fileno(), fcntl.LOCK_EX) on the version's schema.lock: blocks
\* while another open file description holds the lock
acquire_lock(t) ==
  /\ pc[t] = "flock"
  /\ flock[Change(t)["version"]] = 0
  /\ flock' = [flock EXCEPT ![Change(t)["version"]] = t]
  /\ pc' = [pc EXCEPT ![t] = "load"]
  /\ before' = [before EXCEPT ![t] =
                  [schema |-> Decoded(disk[Change(t)["version"]].live_schema),
                   state |-> Decoded(disk[Change(t)["version"]].live_state)]]
  /\ UNCHANGED << locks, truncates, truncating, truncated, handled, requeues, changes, changes_processing, disk, CURRENT_TIMESTAMP, PROCESSING_TIMESTAMPS,
                  threads_started, change_data_raw, schema_data, state_data, saving,
                  process_result, stops, pushed, applied, applies >>

load(t) ==
  /\ pc[t] = "load"
  /\ LET l == LoadLive(disk[Change(t)["version"]])
     IN /\ disk' = [disk EXCEPT ![Change(t)["version"]] = l.disk]
        /\ schema_data' = [schema_data EXCEPT ![t] = l.schema]
        /\ state_data' = [state_data EXCEPT ![t] = l.state]
  /\ pc' = [pc EXCEPT ![t] = "check_ts"]
  /\ UNCHANGED << locks, truncates, truncating, truncated, handled, requeues, changes, changes_processing, CURRENT_TIMESTAMP, PROCESSING_TIMESTAMPS, flock,
                  threads_started, change_data_raw, saving, process_result, stops, pushed,
                  applied, applies, before >>

\* the test of CURRENT_TIMESTAMP; the first branch assigns it before it saves
check_timestamp(t) ==
  /\ pc[t] = "check_ts"
  /\ IF IsNone(CURRENT_TIMESTAMP)
     THEN /\ CURRENT_TIMESTAMP' = Some(Change(t)["timestamp"])
          /\ pc' = [pc EXCEPT ![t] = "init_schema"]
     ELSE /\ UNCHANGED CURRENT_TIMESTAMP
          /\ pc' = [pc EXCEPT ![t] = IF Change(t)["timestamp"] # Val(CURRENT_TIMESTAMP)
                                      THEN "new_schema" ELSE "dispatch"]
  /\ UNCHANGED << locks, truncates, truncating, truncated, handled, requeues, changes, changes_processing, disk, PROCESSING_TIMESTAMPS, flock,
                  threads_started, change_data_raw, schema_data, state_data, saving,
                  process_result, stops, pushed, applied, applies, before >>

\* the save_graph calls of process_schema_change, by position
SavePcs == {"init_schema", "init_state", "new_schema", "new_state",
            "live_schema", "live_state", "arch_schema", "arch_state"}
IsSchemaPc(p) == p \in {"init_schema", "new_schema", "live_schema", "arch_schema"}
AfterSave(p) ==
  CASE p = "init_schema" -> "init_state"
    [] p = "init_state" -> "dispatch"
    [] p = "new_schema" -> "new_state"
    [] p = "new_state" -> "dispatch"
    [] p = "live_schema" -> "live_state"
    [] p = "live_state" -> "arch_schema"
    [] p = "arch_schema" -> "arch_state"
    [] p = "arch_state" -> "finally"

\* the timestamp argument: the global is read when the call is made
SaveTimestamp(t) ==
  CASE pc[t] \in {"init_schema", "init_state", "arch_schema", "arch_state"} -> CURRENT_TIMESTAMP
    [] pc[t] \in {"new_schema", "new_state"} -> Some(Change(t)["timestamp"])
    [] OTHER -> None
SaveGraph(t) == IF IsSchemaPc(pc[t]) THEN schema_data[t] ELSE state_data[t]

\* save_graph up to open(filepath, "w") in safe_write_json; a compress error
\* leaves through the finally block
save_open(t) ==
  /\ pc[t] \in SavePcs
  /\ IsNone(saving[t])
  /\ IF SaveRaises(SaveGraph(t), SaveTimestamp(t))
     THEN /\ pc' = [pc EXCEPT ![t] = "finally"]
          /\ process_result' = [process_result EXCEPT ![t] = FALSE]
          /\ UNCHANGED << disk, saving >>
     ELSE /\ disk' = [disk EXCEPT ![Change(t)["version"]] =
                        SaveOpen(@, SaveTimestamp(t), IsSchemaPc(pc[t]))]
          /\ saving' = [saving EXCEPT ![t] = Some(SaveTimestamp(t))]
          /\ UNCHANGED << pc, process_result >>
  /\ UNCHANGED << locks, truncates, truncating, truncated, handled, requeues, changes, changes_processing, CURRENT_TIMESTAMP, PROCESSING_TIMESTAMPS, flock,
                  threads_started, change_data_raw, schema_data, state_data, stops, pushed,
                  applied, applies, before >>

\* json.dump, flush and fsync of safe_write_json; after the second roll-forward
\* save the global CURRENT_TIMESTAMP is advanced
save_dump(t) ==
  /\ pc[t] \in SavePcs
  /\ ~IsNone(saving[t])
  /\ disk' = [disk EXCEPT ![Change(t)["version"]] =
                SaveWrite(@, SaveGraph(t), Val(saving[t]), IsSchemaPc(pc[t]))]
  /\ saving' = [saving EXCEPT ![t] = None]
  /\ pc' = [pc EXCEPT ![t] = AfterSave(pc[t])]
  /\ CURRENT_TIMESTAMP' = IF pc[t] = "new_state" THEN Some(Change(t)["timestamp"])
                          ELSE CURRENT_TIMESTAMP
  /\ process_result' = [process_result EXCEPT ![t] = (pc[t] = "arch_state")]
  /\ UNCHANGED << locks, truncates, truncating, truncated, handled, requeues, changes, changes_processing, PROCESSING_TIMESTAMPS, flock, threads_started,
                  change_data_raw, schema_data, state_data, stops, pushed, applied, applies,
                  before >>

\* dispatch outside a try/finally: a rule's exception skips the unlock
dispatch_without_finally(t) ==
  /\ pc[t] = "dispatch"
  /\ LET r == Dispatch(Change(t), schema_data[t], state_data[t], Val(CURRENT_TIMESTAMP), UUIDs)
     IN /\ schema_data' = [schema_data EXCEPT ![t] = r.schema]
        /\ state_data' = [state_data EXCEPT ![t] = r.state]
        /\ pc' = [pc EXCEPT ![t] = IF r.ok THEN "live_schema" ELSE "requeue_lrem"]
  /\ process_result' = [process_result EXCEPT ![t] = FALSE]
  /\ UNCHANGED << locks, truncates, truncating, truncated, handled, requeues, changes, changes_processing, disk, CURRENT_TIMESTAMP, PROCESSING_TIMESTAMPS,
                  flock, threads_started, change_data_raw, saving, stops, pushed, applied,
                  applies, before >>

\* the dispatch on the action; the rules get the global CURRENT_TIMESTAMP
dispatch(t) ==
  /\ pc[t] = "dispatch"
  /\ LET r == Dispatch(Change(t), schema_data[t], state_data[t], Val(CURRENT_TIMESTAMP), UUIDs)
     IN /\ schema_data' = [schema_data EXCEPT ![t] = r.schema]
        /\ state_data' = [state_data EXCEPT ![t] = r.state]
        /\ pc' = [pc EXCEPT ![t] = IF r.ok THEN "live_schema" ELSE "finally"]
  /\ process_result' = [process_result EXCEPT ![t] = FALSE]
  /\ UNCHANGED << locks, truncates, truncating, truncated, handled, requeues, changes, changes_processing, disk, CURRENT_TIMESTAMP, PROCESSING_TIMESTAMPS,
                  flock, threads_started, change_data_raw, saving, stops, pushed, applied,
                  applies, before >>

\* the finally block (LOCK_UN, PROCESSING_TIMESTAMPS.pop) and the return to
\* main_worker; on an exception the except block pops the entry once more
release_lock(t) ==
  /\ pc[t] = "finally"
  /\ flock' = [flock EXCEPT ![Change(t)["version"]] = 0]
  /\ PROCESSING_TIMESTAMPS' = DictWithout(PROCESSING_TIMESTAMPS, {Change(t)["version"]})
  /\ pc' = [pc EXCEPT ![t] = IF process_result[t] THEN "ack" ELSE "requeue_lrem"]
  /\ applied' = IF process_result[t] THEN Append(applied, change_data_raw[t]) ELSE applied
  /\ schema_data' = [schema_data EXCEPT ![t] = DiGraph]
  /\ state_data' = [state_data EXCEPT ![t] = DiGraph]
  /\ before' = [before EXCEPT ![t] = [schema |-> DiGraph, state |-> DiGraph]]
  /\ UNCHANGED << locks, truncates, truncating, truncated, handled, requeues, changes, changes_processing, disk, CURRENT_TIMESTAMP, threads_started,
                  change_data_raw, saving, process_result, stops, pushed, applies >>

\* success: redis_client.lrem(processing_queue, 0, change_data_raw)
ack(t) ==
  /\ pc[t] = "ack"
  /\ changes_processing' = lrem(changes_processing, change_data_raw[t])
  /\ change_data_raw' = [change_data_raw EXCEPT ![t] = 0]
  /\ pc' = [pc EXCEPT ![t] = "poll"]
  /\ UNCHANGED << locks, truncates, truncating, truncated, handled, requeues, changes, disk, CURRENT_TIMESTAMP, PROCESSING_TIMESTAMPS, flock,
                  threads_started, schema_data, state_data, saving, process_result, stops,
                  pushed, applied, applies, before >>

\* failure: lrem from the processing queue ...
requeue_lrem(t) ==
  /\ pc[t] = "requeue_lrem"
  /\ changes_processing' = lrem(changes_processing, change_data_raw[t])
  /\ pc' = [pc EXCEPT ![t] = "requeue_rpush"]
  /\ UNCHANGED << locks, truncates, truncating, truncated, handled, requeues, changes, disk, CURRENT_TIMESTAMP, PROCESSING_TIMESTAMPS, flock,
                  threads_started, change_data_raw, schema_data, state_data, saving,
                  process_result, stops, pushed, applied, applies, before >>

\* ... then rpush to the main queue, as a second redis command, and sleep(1)
\* a requeue to the head of the main queue (lpush in place of rpush)
requeue_lpush(t) ==
  /\ pc[t] = "requeue_rpush"
  /\ changes' = << change_data_raw[t] >> \o changes
  /\ change_data_raw' = [change_data_raw EXCEPT ![t] = 0]
  /\ pc' = [pc EXCEPT ![t] = "poll"]
  /\ requeues' = IF change_data_raw[t] \in Items /\ requeues[change_data_raw[t]] <= PoisonAfter
                  THEN [requeues EXCEPT ![change_data_raw[t]] = @ + 1]
                  ELSE requeues
  /\ UNCHANGED << locks, truncates, truncating, truncated, handled, changes_processing, disk, CURRENT_TIMESTAMP, PROCESSING_TIMESTAMPS, flock,
                  threads_started, schema_data, state_data, saving, process_result, stops,
                  pushed, applied, applies, before >>

requeue_rpush(t) ==
  /\ pc[t] = "requeue_rpush"
  /\ changes' = Append(changes, change_data_raw[t])
  /\ change_data_raw' = [change_data_raw EXCEPT ![t] = 0]
  /\ pc' = [pc EXCEPT ![t] = "poll"]
  /\ requeues' = IF change_data_raw[t] \in Items /\ requeues[change_data_raw[t]] <= PoisonAfter
                  THEN [requeues EXCEPT ![change_data_raw[t]] = @ + 1]
                  ELSE requeues
  /\ UNCHANGED << locks, truncates, truncating, truncated, handled, changes_processing, disk, CURRENT_TIMESTAMP, PROCESSING_TIMESTAMPS, flock,
                  threads_started, schema_data, state_data, saving, process_result, stops,
                  pushed, applied, applies, before >>

\* The process stops (kill, crash, reload): its daemon threads end where they
\* are, the module globals are gone and the kernel drops the flocks; redis and
\* the files keep what they hold.
stop ==
  /\ threads_started > 0
  /\ stops < MaxStops
  /\ stops' = stops + 1
  /\ threads_started' = 0
  /\ pc' = [t \in Threads |-> "off"]
  /\ change_data_raw' = [t \in Threads |-> 0]
  /\ schema_data' = [t \in Threads |-> DiGraph]
  /\ state_data' = [t \in Threads |-> DiGraph]
  /\ saving' = [t \in Threads |-> None]
  /\ process_result' = [t \in Threads |-> FALSE]
  /\ CURRENT_TIMESTAMP' = None
  /\ PROCESSING_TIMESTAMPS' = EmptyDict
  /\ flock' = [v \in Versions |-> 0]
  /\ before' = [t \in Threads |-> [schema |-> DiGraph, state |-> DiGraph]]
  /\ UNCHANGED << locks, truncates, truncating, truncated, handled, requeues, changes, changes_processing, disk, pushed, applied, applies >>

Next ==
  \/ start_worker
  \/ livestate_worker
  \/ \E item \in Malformed \cup NonObject : rpush_raw(item)
  \/ \E item \in Items \cup BulkItems \cup Unversioned \cup Rejected :
        queue_live_schema_update(item)
  \/ \E t \in Threads : lmove(t)
  \/ \E t \in Threads : lrem_invalid(t)
  \/ \E t \in Threads : process_change(t)
  \/ \E t \in Threads : acquire_lock(t)
  \/ \E t \in Threads : load(t)
  \/ \E t \in Threads : check_timestamp(t)
  \/ \E t \in Threads : save_open(t)
  \/ \E t \in Threads : save_dump(t)
  \/ \E t \in Threads : dispatch(t)
  \/ \E t \in Threads : release_lock(t)
  \/ \E t \in Threads : ack(t)
  \/ \E t \in Threads : requeue_lrem(t)
  \/ \E t \in Threads : requeue_rpush(t)
  \/ stop

Spec == Init /\ [][Next]_vars

(***************************************************************************)
(* The queue endpoints: truncate_queue_by_version next to the producers    *)
(* and the workers' lmove.  Redis keeps its lists across runs of the       *)
(* program, so a run can start with a main queue that is not empty.        *)
(***************************************************************************)
LeftItems == {1, 4, 5, 6, 12}
LeftPending == UNION { [1..n -> LeftItems] : n \in 0..MaxLeft }

\* the body of the loop over items: json.loads, then rpush when
\* change_data.get("version") != version; the except branch pushes too
truncate_keeps(item, version) ==
  IF item \in Malformed THEN TRUE
  ELSE IF HasVersion(json_loads(item)) THEN VersionOf(item) # version ELSE TRUE

\* items = redis_client.lrange("changes", 0, -1)
truncate_lrange(version) ==
  /\ threads_started = 2
  /\ truncates < MaxTruncate
  /\ IsNone(truncating)
  /\ truncating' = Some([version |-> version, items |-> changes])
  /\ truncates' = truncates + 1
  /\ UNCHANGED << locks, truncated, handled, requeues, changes, changes_processing, disk,
                  CURRENT_TIMESTAMP, PROCESSING_TIMESTAMPS, flock, threads_started, pc,
                  change_data_raw, schema_data, state_data, saving, process_result, stops,
                  pushed, applied, applies, before >>

\* the loop raises AttributeError on the first item that is JSON but no object
truncate_raises(items) == \E i \in DOMAIN items : items[i] \in NonObject

\* pipe.execute(): the delete and the rpush of every kept item, as one
\* MULTI/EXEC transaction.  When the loop raised, the pipeline is never
\* executed and the request ends with the list untouched.
truncate_execute ==
  /\ ~IsNone(truncating)
  /\ changes' = IF truncate_raises(Val(truncating).items) THEN changes
                ELSE SelectSeq(Val(truncating).items,
                               LAMBDA item : truncate_keeps(item, Val(truncating).version))
  /\ truncated' = [version |-> Val(truncating).version, read |-> Val(truncating).items,
                   from |-> changes, to |-> changes']
  /\ truncating' = None
  /\ UNCHANGED << locks, truncates, handled, requeues, changes_processing, disk, CURRENT_TIMESTAMP,
                  PROCESSING_TIMESTAMPS, flock, threads_started, pc, change_data_raw,
                  schema_data, state_data, saving, process_result, stops, pushed, applied,
                  applies, before >>

InitQueue == changes \in LeftPending /\ Constructed

NextQueue ==
  \/ start_worker
  \/ livestate_worker
  \/ \E item \in Malformed \cup NonObject : rpush_raw(item)
  \/ \E item \in Items \cup Unversioned \cup Rejected : queue_live_schema_update(item)
  \/ \E t \in Threads : lmove(t)
  \/ \E version \in Versions : truncate_lrange(version)
  \/ truncate_execute

SpecQueue == InitQueue /\ [][NextQueue]_vars

(***************************************************************************)
(* The mutation rules on their own: changes of every kind handed to        *)
(* process_schema_change one after the other (as direct_create does), with *)
(* no queue and no second thread.                                          *)
(***************************************************************************)
NodeA2 == [node_id |-> "A", node_type |-> "Parts", properties |-> [units_in_chain |-> 2]]
NodeA1 == [node_id |-> "A", node_type |-> "Parts",
           properties |-> [units_in_chain |-> 1, expiry |-> 5]]
NodeB1 == [node_id |-> "B", node_type |-> "Parts", properties |-> [units_in_chain |-> 1]]
NodeB == [node_id |-> "B", node_type |-> "Tools", properties |-> EmptyDict]
EdgeAB == [source_id |-> "A", target_id |-> "B", edge_type |-> "r", properties |-> EmptyDict]
EdgeBA == [source_id |-> "B", target_id |-> "A", edge_type |-> "r", properties |-> EmptyDict]

RuleChanges ==
  << [action |-> "create", payload |-> NodeA2],
     [action |-> "create", payload |-> NodeA1],
     [action |-> "create", payload |-> NodeB1],
     [action |-> "create", payload |-> NodeB],
     [action |-> "create", payload |-> EdgeAB],
     [action |-> "update", payload |-> [node_id |-> "A", properties |-> [units_in_chain |-> 0]]],
     [action |-> "update", payload |-> [node_id |-> "B", properties |-> [units_in_chain |-> 2]]],
     [action |-> "update", payload |-> [source_id |-> "A", target_id |-> "B", edge_type |-> "r",
                                        properties |-> [w |-> 1]]],
     [action |-> "delete", payload |-> [node_id |-> "A", cascade |-> TRUE]],
     [action |-> "delete", payload |-> [node_id |-> "A"]],
     [action |-> "delete", payload |-> [node_id |-> "B"]],
     [action |-> "delete", payload |-> [source_id |-> "A", target_id |-> "B"]],
     [action |-> "bulk_create", payload |-> << NodeA2, NodeB1, EdgeAB >>],
     [action |-> "bulk_update",
      payload |-> << [node_id |-> "A", properties |-> [units_in_chain |-> 1]],
                     [node_id |-> "B", properties |-> [units_in_chain |-> 2]] >>],
     [action |-> "bulk_delete",
      payload |-> << [source_id |-> "A", target_id |-> "B"], [node_id |-> "B"] >>],
     [action |-> "direct_create",
      payload |-> [nodes |-> << [id |-> "A", node_type |-> "Parts", units_in_chain |-> 1],
                                [id |-> "B", node_type |-> "Parts", units_in_chain |-> 2] >>,
                   links |-> << [source |-> "A", target |-> "B",
                                 relationship_type |-> "r"] >>]],
     [action |-> "direct_create",
      payload |-> [nodes |-> << [id |-> "B", node_type |-> "Parts", units_in_chain |-> 1] >>,
                   links |-> << >>]],
     [action |-> "bulk_create", payload |-> << EdgeAB, NodeB1 >>],
     [action |-> "delete",
      payload |-> [source_id |-> "A", target_id |-> "B", edge_type |-> "r"]],
     [action |-> "delete",
      payload |-> [source_id |-> "A", target_id |-> "B", edge_type |-> "s"]],
     [action |-> "create", payload |-> EdgeBA] >>

\* uuid4 promises nothing about the order of the ids it returns
UuidSupplies == { UUIDs, [i \in 1..MaxInstances |-> MaxInstances + 1 - i] }

\* the timestamps the changes carry
RuleTimestamps == {0, 1, 2}

handle_change(i, timestamp, uuids) ==
  /\ applies < MaxApply
  /\ IF IsNone(CURRENT_TIMESTAMP) THEN TRUE ELSE Val(CURRENT_TIMESTAMP) <= timestamp
  /\ LET change_data == [action |-> RuleChanges[i].action, type |-> "schema",
                         timestamp |-> timestamp, version |-> "v",
                         payload |-> RuleChanges[i].payload]
         r == process_schema_change(change_data, disk["v"], CURRENT_TIMESTAMP, uuids)
     IN /\ disk' = [disk EXCEPT !["v"] = r.disk]
        /\ CURRENT_TIMESTAMP' = r.current
        /\ process_result' = [process_result EXCEPT ![1] = r.ok]
  /\ applies' = applies + 1
  /\ handled' = [rule |-> i, timestamp |-> timestamp]
  /\ before' = [before EXCEPT ![1] = [schema |-> Decoded(disk["v"].live_schema),
                                       state |-> Decoded(disk["v"].live_state)]]
  /\ UNCHANGED << locks, truncates, truncating, truncated, requeues, changes, changes_processing, PROCESSING_TIMESTAMPS, flock,
                  threads_started,
                  pc, change_data_raw, schema_data, state_data, saving, stops, pushed,
                  applied >>

NextRules ==
  \E i \in DOMAIN RuleChanges, timestamp \in RuleTimestamps, uuids \in UuidSupplies :
     handle_change(i, timestamp, uuids)

SpecRules == Init /\ [][NextRules]_vars

(***************************************************************************)
(* What the files of a version decode to                                   *)
(***************************************************************************)
LiveSchema(v) == Decoded(disk[v].live_schema)
LiveState(v) == Decoded(disk[v].live_state)

InstancesOf(state, parent_id) == find_nodes_with_property(state, "parent_id", parent_id)

\* I2 / P1 on a pair of graphs
UnitsMatch(schema, state) ==
  \A i \in DOMAIN schema.nodes :
     "units_in_chain" \in DOMAIN schema.nodes[i].attrs =>
        Len(InstancesOf(state, schema.nodes[i].id)) = schema.nodes[i].attrs["units_in_chain"]

RECURSIVE ReplayFrom(_, _, _, _, _)
\* the changes of version v in log with timestamp <= upto, applied in log order
\* to the empty graphs, each with its own timestamp
ReplayFrom(log, v, upto, i, g) ==
  IF i > Len(log) THEN g
  ELSE IF VersionOf(log[i]) = v /\ TimestampOf(log[i]) <= upto
       THEN LET r == Dispatch(json_loads(log[i]), g.schema, g.state, TimestampOf(log[i]), UUIDs)
            IN ReplayFrom(log, v, upto, i + 1,
                          IF r.ok THEN [schema |-> r.schema, state |-> r.state] ELSE g)
       ELSE ReplayFrom(log, v, upto, i + 1, g)

Replay(v, upto) == ReplayFrom(applied, v, upto, 1, [schema |-> DiGraph, state |-> DiGraph])

InApply == {"load", "check_ts", "dispatch", "finally"} \cup SavePcs
Idle(t) == pc[t] \in {"off", "poll"}
PushedOnce(item) == Cardinality({ i \in DOMAIN pushed : pushed[i] = item }) = 1
PushIndex(item) == CHOOSE i \in DOMAIN pushed : pushed[i] = item

\* C2: an item that was pushed and whose apply has not yet returned True is in
\* the pending list or in the in-flight list at every instant
C2_ItemInPendingOrInFlight ==
  \A item \in Items :
     (PushedOnce(item) /\ item \notin Range(applied)) =>
        item \in Range(changes) \cup Range(changes_processing)

\* C3: once startup is complete, every item of the in-flight list is held by a
\* running thread (what an earlier run left there was swept back to pending)
C3_StartupSweep ==
  threads_started = 2 =>
     \A i \in DOMAIN changes_processing :
        \E t \in Threads : change_data_raw[t] = changes_processing[i]

\* C4: two items of one version are applied in the order they were pushed
C4_AppliedInPushOrder ==
  \A i, j \in DOMAIN applied :
     (/\ i < j
      /\ VersionOf(applied[i]) = VersionOf(applied[j])
      /\ PushedOnce(applied[i]) /\ PushedOnce(applied[j]))
       => PushIndex(applied[i]) < PushIndex(applied[j])

\* C5: at most one thread runs the main_worker loop
C5_SingleConsumer == Cardinality({ t \in Threads : pc[t] # "off" }) <= 1

\* C6: a thread holds its version's lock from the load to the end of the last
\* write, and holds no lock once process_schema_change has returned, on the
\* success path and on the exception paths
C6_LockScoped ==
  \A t \in Threads :
     /\ pc[t] \in InApply => flock[Change(t)["version"]] = t
     /\ pc[t] \notin InApply => \A v \in Versions : flock[v] # t

\* a thread in the finally block after an exception, still holding the lock
C6_Witness ==
  \E t \in Threads :
     pc[t] = "finally" /\ ~process_result[t] /\ flock[Change(t)["version"]] = t

\* C7: no two threads are between load and the end of the writes for the same
\* version
C7_OneApplyPerVersion ==
  \A t1, t2 \in Threads :
     (t1 # t2 /\ pc[t1] \in InApply /\ pc[t2] \in InApply)
       => Change(t1)["version"] # Change(t2)["version"]

\* one thread writes a version while the other waits for that version's lock
C7_Witness ==
  \E t1, t2 \in Threads :
     /\ pc[t1] \in SavePcs
     /\ pc[t2] = "flock"
     /\ Change(t1)["version"] = Change(t2)["version"]

\* C8: in a run without a process stop, whenever no apply of the version is
\* under way, every archive snapshot keyed t holds the graphs that the
\* successfully applied changes with timestamp <= t produce
SnapshotIs(f, graph) ==
  /\ ~CompressRaises(node_link_data(graph))
  /\ f.data = compress_graph_json(node_link_data(graph))

C8_SnapshotAtTimestamp ==
  \A v \in Versions, ts \in 1..MaxTimestamp :
     (stops = 0 /\ flock[v] = 0) =>
        /\ Readable(disk[v].schema_archive[ts]) =>
              SnapshotIs(disk[v].schema_archive[ts], Replay(v, ts).schema)
        /\ Readable(disk[v].state_archive[ts]) =>
              SnapshotIs(disk[v].state_archive[ts], Replay(v, ts).state)

\* C9: in a run without a process stop, whenever no thread handles an item, the
\* live files decode to the graphs that the successfully applied changes produce
C9_LiveIsApplied ==
  (stops = 0 /\ \A t \in Threads : Idle(t)) =>
     \A v \in Versions :
        /\ LiveSchema(v) = Replay(v, MaxTimestamp).schema
        /\ LiveState(v) = Replay(v, MaxTimestamp).state

\* C10: in a run without a process stop, when an apply ends with an exception
\* the live files still decode to the graphs they held when the lock was taken
C10_FailedApplyKeepsLive ==
  \A t \in Threads :
     (stops = 0 /\ pc[t] = "finally" /\ ~process_result[t]) =>
        /\ LiveSchema(Change(t)["version"]) = before[t].schema
        /\ LiveState(Change(t)["version"]) = before[t].state

(***************************************************************************)
(* The rules, one change at a time: the change last handled, the graphs    *)
(* it found and the graphs it left                                         *)
(***************************************************************************)
LastChange == RuleChanges[handled.rule]
LastApplied == handled.rule > 0 /\ process_result[1]
IsNodePayload(payload) == "node_id" \in DOMAIN payload

\* the ids of a node-link document's nodes
DocIds(doc) == { doc.nodes[i].id : i \in DOMAIN doc.nodes }

\* C11: after every successfully applied payload, both endpoints of every link
\* of the live schema document are nodes of that document
C11_EdgesHaveEndpoints ==
  LastApplied =>
     LET doc == disk["v"].live_schema.data
     IN \A i \in DOMAIN doc.links :
           doc.links[i].source \in DocIds(doc) /\ doc.links[i].target \in DocIds(doc)

\* a node delete that succeeded on a schema in which the node had an edge
C11_Witness ==
  /\ LastApplied
  /\ LastChange.action = "delete"
  /\ IsNodePayload(LastChange.payload)
  /\ \E i \in DOMAIN before[1].schema.edges :
        LastChange.payload.node_id \in
           {before[1].schema.edges[i].source, before[1].schema.edges[i].target}

\* C12: a successful cascade delete of node n leaves the schema without n and
\* without every node that was reachable from n, and leaves the state without
\* any instance of those of them that carried units_in_chain
C12_CascadeDelete ==
  (/\ LastApplied
   /\ LastChange.action = "delete"
   /\ IsNodePayload(LastChange.payload)
   /\ DictGet(LastChange.payload, "cascade", FALSE))
    => LET removed == Reach(before[1].schema, {LastChange.payload.node_id})
       IN /\ removed \cap NodeIds(LiveSchema("v")) = {}
          /\ \A n \in removed :
                "units_in_chain" \in DOMAIN NodeAttrs(before[1].schema, n)
                   => Len(InstancesOf(LiveState("v"), n)) = 0

\* C13: after every successfully applied payload, the parent_id of every
\* instance of the state graph is the id of a node of the schema graph
C13_InstancesHaveParent ==
  LastApplied =>
     \A i \in DOMAIN LiveState("v").nodes :
        LET x == LiveState("v").nodes[i]
        IN "parent_id" \in DOMAIN x.attrs /\ x.attrs["parent_id"] \in NodeIds(LiveSchema("v"))

\* the last change dispatched once more on the graphs it left
Redelivered ==
  Dispatch(LastChange, LiveSchema("v"), LiveState("v"), handled.timestamp, UUIDs)

\* C14: the payload that was just applied successfully, applied a second time,
\* succeeds again and leaves the schema graph and the number of instances of
\* every parent as they are
C14_ReplayIsIdempotent ==
  LastApplied =>
     /\ Redelivered.ok
     /\ Redelivered.schema = LiveSchema("v")
     /\ \A n \in {"A", "B"} :
           Len(InstancesOf(Redelivered.state, n)) = Len(InstancesOf(LiveState("v"), n))

\* C15: a node create that was just applied, applied once more, gives the same
\* schema graph: the properties are merged into the existing node and no node
\* is added
C15_CreateTwiceIsCreateOnce ==
  (LastApplied /\ LastChange.action = "create" /\ IsNodePayload(LastChange.payload))
    => /\ Redelivered.ok
       /\ Redelivered.schema = LiveSchema("v")
       /\ Len(Redelivered.schema.nodes) = Len(LiveSchema("v").nodes)

\* a node create applied to a schema of two nodes that already held the node
C15_Witness ==
  /\ LastApplied
  /\ LastChange.action = "create"
  /\ IsNodePayload(LastChange.payload)
  /\ has_node(before[1].schema, LastChange.payload.node_id)
  /\ Len(LiveSchema("v").nodes) = 2

\* equality of two node-link documents up to the order of nodes and links
SameDoc(x, y) ==
  /\ Len(x.nodes) = Len(y.nodes) /\ Range(x.nodes) = Range(y.nodes)
  /\ Len(x.links) = Len(y.links) /\ Range(x.links) = Range(y.links)

\* every node carries node_type and every link relationship_type
Typed(x) ==
  /\ \A i \in DOMAIN x.nodes : "node_type" \in DOMAIN x.nodes[i]
  /\ \A i \in DOMAIN x.links : "relationship_type" \in DOMAIN x.links[i]

RoundTrips(x) ==
  /\ ~CompressRaises(x)
  /\ SameDoc(decompress_graph_json(compress_graph_json(x)), x)

\* C16: every typed node-link document the rules leave behind as schema or
\* state graph compresses without an exception and is decompressed to itself,
\* up to the order of nodes and links
C16_CodecRoundTrip ==
  /\ (Readable(disk["v"].live_schema) /\ Typed(disk["v"].live_schema.data))
        => RoundTrips(disk["v"].live_schema.data)
  /\ (Readable(disk["v"].live_state) /\ Typed(disk["v"].live_state.data))
        => RoundTrips(disk["v"].live_state.data)

\* the last change was a node create or update that carries units_in_chain
SetsUnits ==
  /\ LastApplied
  /\ LastChange.action \in {"create", "update"}
  /\ IsNodePayload(LastChange.payload)
  /\ "units_in_chain" \in DOMAIN LastChange.payload.properties

\* C17: when a reconciliation shrinks the instance set of a parent from c to k,
\* the survivors are the instances that had at least c - k instances before
\* them in the order of validity end (else creation time), equal ones by id
C17_EvictionOrder ==
  SetsUnits =>
     LET n == LastChange.payload.node_id
         k == LastChange.payload.properties["units_in_chain"]
         had == Range(InstancesOf(before[1].state, n))
         c == Cardinality(had)
         Precedes(x, y) ==
           \/ EvictKey(x) < EvictKey(y)
           \/ EvictKey(x) = EvictKey(y) /\ x.id < y.id
     IN c > k =>
          Range(InstancesOf(LiveState("v"), n))
            = { x \in had : Cardinality({ y \in had : Precedes(y, x) }) >= c - k }

\* C18: every instance a node create or update with timestamp t adds has
\* created_at = t and a validity end of t + expiry when the properties carry
\* expiry, of t + one year when they do not
C18_ValidityWindow ==
  SetsUnits =>
     LET n == LastChange.payload.node_id
         properties == LastChange.payload.properties
         t == handled.timestamp
     IN \A i \in DOMAIN LiveState("v").nodes :
           LET x == LiveState("v").nodes[i]
           IN (x.attrs["parent_id"] = n /\ ~has_node(before[1].state, x.id))
                => /\ x.attrs["created_at"] = t
                   /\ x.attrs["expiry"] = t + (IF "expiry" \in DOMAIN properties
                                                THEN properties["expiry"] ELSE OneYear)

\* C19: no item is pushed back to the pending list more than PoisonAfter times
C19_BoundedRetries == \A item \in Items : requeues[item] <= PoisonAfter

C21_UnversionedDropped ==
  [][\A t \in Threads :
        (change_data_raw[t] \in Unversioned /\ pc'[t] = "poll")
           => /\ changes' = changes
              /\ change_data_raw[t] \notin Range(applied')]_vars

\* C22: every envelope that queue_live_schema_update pushed has a payload of
\* the kind its action needs, a timestamp >= 0 and a version
C22_PushedIsValidated ==
  \A i \in DOMAIN pushed :
     pushed[i] \notin Malformed \cup NonObject =>
        /\ validate_timestamp(pushed[i])
        /\ validate_payload(pushed[i])
        /\ HasVersion(json_loads(pushed[i]))

(***************************************************************************)
(* Truncation of the pending list by version                               *)
(***************************************************************************)
\* C23: when the pending list is still what the truncation read, its execute
\* leaves the pending list without the decodable items of the version, every
\* other item in place and in order, and the in-flight list as it was
C23_TruncateByVersion ==
  [][(~IsNone(truncating) /\ IsNone(truncating') /\ Val(truncating).items = changes)
       => /\ changes' =
               SelectSeq(changes,
                         LAMBDA item : ~(/\ item \notin Malformed \cup NonObject
                                         /\ HasVersion(json_loads(item))
                                         /\ VersionOf(item) = Val(truncating).version))
          /\ changes_processing' = changes_processing]_vars

(***************************************************************************)
(* Bulk envelopes                                                          *)
(***************************************************************************)
\* the single action that the sub-payloads of a bulk action are applied with
SingleOf(action) ==
  CASE action = "bulk_create" -> "create"
    [] action = "bulk_update" -> "update"
    [] action = "bulk_delete" -> "delete"

RECURSIVE OneByOne(_, _, _, _, _, _)
\* the sub-payloads as single envelopes in list order, each applied to the
\* graphs that the one before left in the live files
OneByOne(action, payloads, schema, state, timestamp, i) ==
  IF i > Len(payloads) THEN [schema |-> schema, state |-> state]
  ELSE LET r == Dispatch([action |-> action, payload |-> payloads[i]], schema, state,
                         timestamp, UUIDs)
       IN OneByOne(action, payloads, node_link_graph(node_link_data(r.schema)),
                   node_link_graph(node_link_data(r.state)), timestamp, i + 1)

SameGraph(g, h) ==
  /\ Len(g.nodes) = Len(h.nodes) /\ Range(g.nodes) = Range(h.nodes)
  /\ Len(g.edges) = Len(h.edges) /\ Range(g.edges) = Range(h.edges)

SameCounts(g, h) ==
  \A parent_id \in {"A", "B"} :
     Cardinality(Range(InstancesOf(g, parent_id))) = Cardinality(Range(InstancesOf(h, parent_id)))

\* the positions of process_schema_change before the first write of a live file
PreWrite == {"load", "check_ts", "init_schema", "init_state", "new_schema", "new_state",
             "dispatch"}

\* the positions after the last write of a live file, on the success path
Written(t) ==
  pc[t] \in {"arch_schema", "arch_state"} \/ (pc[t] = "finally" /\ process_result[t])

MissingEndpoint(payload, schema) ==
  /\ IsEdgePayload(payload)
  /\ ~has_node(schema, payload["source_id"]) \/ ~has_node(schema, payload["target_id"])

\* C25: after a bulk_create whose first sub-payload is an edge with a missing
\* endpoint, every node sub-payload after it has been applied: the live schema
\* has the node with the payload's type and properties
C25_LaterSubItemsApplied ==
  (/\ handled.rule > 0
   /\ LastChange.action = "bulk_create"
   /\ MissingEndpoint(LastChange.payload[1], before[1].schema)) =>
     \A j \in 2..Len(LastChange.payload) :
        IsNodePayload(LastChange.payload[j]) =>
           /\ has_node(LiveSchema("v"), LastChange.payload[j]["node_id"])
           /\ NodeAttrs(LiveSchema("v"), LastChange.payload[j]["node_id"])["node_type"]
                 = LastChange.payload[j]["node_type"]

(***************************************************************************)
(* The timestamp of an apply                                               *)
(***************************************************************************)
\* C26: the instances a thread's dispatch created carry the timestamp of the
\* thread's own payload as created_at, and the snapshots the thread writes at
\* the end of its apply are keyed by that timestamp
C26_OwnTimestamp ==
  \A t \in Threads :
     /\ pc[t] = "live_schema" =>
           \A i \in DOMAIN state_data[t].nodes :
              ~has_node(before[t].state, state_data[t].nodes[i].id) =>
                 state_data[t].nodes[i].attrs["created_at"] = Change(t)["timestamp"]
     /\ (pc[t] \in {"arch_schema", "arch_state"} /\ ~IsNone(saving[t])) =>
           Val(saving[t]) = Some(Change(t)["timestamp"])

(***************************************************************************)
(* Readers of the live files                                               *)
(***************************************************************************)
\* get_live_schema / get_live_state: open the live file and json.load it, with
\* no lock; a missing file gives the error document, an empty file makes
\* json.load raise JSONDecodeError
get_live(f) ==
  IF ~f.exists THEN [ok |-> TRUE, found |-> FALSE, data |-> EmptyDoc]
  ELSE IF f.complete THEN [ok |-> TRUE, found |-> TRUE, data |-> f.data]
  ELSE [ok |-> FALSE, found |-> TRUE, data |-> EmptyDoc]

get_live_schema(version) == get_live(disk[version].live_schema)
get_live_state(version) == get_live(disk[version].live_state)

\* C27: in a run without a process stop, a read of a live file at any instant
\* returns a complete document (or reports that there is no file yet)
C27_ReaderSeesWholeFile ==
  stops = 0 =>
     \A v \in Versions : get_live_schema(v).ok /\ get_live_state(v).ok

(***************************************************************************)
(* The snapshot of an apply                                                *)
(***************************************************************************)
\* C28: after a successful apply with timestamp t, the schema archive and the
\* state archive hold a snapshot keyed t that is the compressed form of the
\* graph in the live file, for t = 0 as for every other t
C28_SnapshotAtEveryTimestamp ==
  LastApplied =>
     /\ Readable(disk["v"].schema_archive[handled.timestamp])
     /\ SnapshotIs(disk["v"].schema_archive[handled.timestamp], LiveSchema("v"))
     /\ Readable(disk["v"].state_archive[handled.timestamp])
     /\ SnapshotIs(disk["v"].state_archive[handled.timestamp], LiveState("v"))

(***************************************************************************)
(* Acknowledgement                                                         *)
(***************************************************************************)
\* how often value occurs in a redis list
Occurrences(list, value) == Cardinality({ i \in DOMAIN list : list[i] = value })

\* C29: the lrem of a thread's acknowledgement or requeue takes exactly one
\* occurrence of the thread's item out of the in-flight list
C29_AckRemovesOne ==
  [][\A t \in Threads :
        (pc[t] \in {"ack", "requeue_lrem"} /\ pc'[t] \in {"poll", "requeue_rpush"})
           => Occurrences(changes_processing', change_data_raw[t])
                = Occurrences(changes_processing, change_data_raw[t]) - 1]_vars

(***************************************************************************)
(* The failing cases of the single-item rules                              *)
(***************************************************************************)
\* the conditions under which the rules raise ValueError for something absent
RaisesAbsent(change, schema) ==
  LET payload == change.payload
  IN CASE change.action = "create" -> MissingEndpoint(payload, schema)
       [] change.action = "update" ->
            ~IsEdgePayload(payload) /\ IsNodePayload(payload)
              /\ ~has_node(schema, payload["node_id"])
       [] change.action = "delete" ->
            IF IsEdgePayload(payload)
            THEN ~has_edge(schema, payload["source_id"], payload["target_id"])
            ELSE IsNodePayload(payload) /\ ~has_node(schema, payload["node_id"])
       [] OTHER -> FALSE

\* C30: an edge create with an absent endpoint, a node update or node delete of
\* an absent node and an edge delete of an absent edge raise: the rule returns
\* no graphs and the ones it was given are as before, the apply returns False
\* and the live files hold what they held
C30_FailingRuleChangesNothing ==
  (handled.rule > 0 /\ RaisesAbsent(LastChange, before[1].schema)) =>
     LET r == Dispatch(LastChange, before[1].schema, before[1].state, handled.timestamp,
                       UUIDs)
     IN /\ ~r.ok /\ r.schema = before[1].schema /\ r.state = before[1].state
        /\ ~process_result[1]
        /\ LiveSchema("v") = before[1].schema
        /\ LiveState("v") = before[1].state

\* an edge delete was handed in for an edge that the schema, which has nodes
\* and instances, does not have
C30_Witness ==
  /\ handled.rule > 0
  /\ LastChange.action = "delete" /\ IsEdgePayload(LastChange.payload)
  /\ RaisesAbsent(LastChange, before[1].schema)
  /\ Len(before[1].schema.nodes) > 0 /\ Len(before[1].state.nodes) > 0

(***************************************************************************)
(* The edge rules                                                          *)
(***************************************************************************)
IsEdgeChange(change, action) == change.action = action /\ IsEdgePayload(change.payload)

\* C31: an edge update on a present edge succeeds at the first existence
\* check and merges the payload's properties into the edge; on an absent edge
\* it makes three failed checks, raises, and leaves both graphs as they were
C31_EdgeUpdateTerminates ==
  (handled.rule > 0 /\ IsEdgeChange(LastChange, "update")) =>
     LET source_id == LastChange.payload["source_id"]
         target_id == LastChange.payload["target_id"]
         failed == EdgeRetry(before[1].schema, source_id, target_id, 0)
         r == Dispatch(LastChange, before[1].schema, before[1].state, handled.timestamp,
                       UUIDs)
     IN IF has_edge(before[1].schema, source_id, target_id)
        THEN /\ failed = 0
             /\ r.ok
             /\ get_edge_data(r.schema, source_id, target_id)
                   = DictUpdate(get_edge_data(before[1].schema, source_id, target_id),
                                LastChange.payload["properties"])
             /\ process_result[1] => LiveSchema("v") = r.schema
        ELSE /\ failed = 3
             /\ ~r.ok /\ r.schema = before[1].schema /\ r.state = before[1].state
             /\ ~process_result[1]
             /\ LiveSchema("v") = before[1].schema /\ LiveState("v") = before[1].state

\* an edge update was handed in while both endpoints existed and the edge did
\* not
C31_Witness ==
  /\ handled.rule > 0 /\ IsEdgeChange(LastChange, "update")
  /\ has_node(before[1].schema, "A") /\ has_node(before[1].schema, "B")
  /\ ~has_edge(before[1].schema, "A", "B")
  /\ ~process_result[1]

\* the edges of a graph other than (s, t)
OtherEdges(g, s, t) == { e \in Range(g.edges) : ~(e.source = s /\ e.target = t) }

\* C32: an edge delete on an existing edge removes it when the payload has no
\* edge_type or one equal to the edge's relationship_type, and keeps it as it
\* is when the edge_type differs; the nodes, every other edge and the state
\* graph are unchanged, and a successful apply leaves that schema in the live
\* file
C32_EdgeDeleteByType ==
  (/\ handled.rule > 0 /\ IsEdgeChange(LastChange, "delete")
   /\ has_edge(before[1].schema, LastChange.payload["source_id"],
               LastChange.payload["target_id"])) =>
     LET payload == LastChange.payload
         s == payload["source_id"]
         t == payload["target_id"]
         matches == IF "edge_type" \in DOMAIN payload
                    THEN payload["edge_type"]
                           = get_edge_data(before[1].schema, s, t)["relationship_type"]
                    ELSE TRUE
         r == Dispatch(LastChange, before[1].schema, before[1].state, handled.timestamp,
                       UUIDs)
     IN /\ r.ok
        /\ has_edge(r.schema, s, t) <=> ~matches
        /\ ~matches => get_edge_data(r.schema, s, t) = get_edge_data(before[1].schema, s, t)
        /\ r.schema.nodes = before[1].schema.nodes
        /\ OtherEdges(r.schema, s, t) = OtherEdges(before[1].schema, s, t)
        /\ r.state = before[1].state
        /\ process_result[1] => SameGraph(LiveSchema("v"), r.schema)

\* an edge delete with a matching edge_type was applied to a schema that had
\* a second edge
C32_Witness ==
  /\ handled.rule > 0 /\ IsEdgeChange(LastChange, "delete") /\ process_result[1]
  /\ "edge_type" \in DOMAIN LastChange.payload
  /\ has_edge(before[1].schema, "A", "B") /\ has_edge(before[1].schema, "B", "A")
  /\ ~has_edge(LiveSchema("v"), "A", "B") /\ has_edge(LiveSchema("v"), "B", "A")

(***************************************************************************)
(* Direct create                                                           *)
(***************************************************************************)
\* the graph g holds exactly the nodes and links of the node-link document doc
HoldsDocument(g, doc) ==
  /\ Len(g.nodes) = Len(doc.nodes)
  /\ Range(g.nodes) = { [id |-> n.id, attrs |-> DictWithout(n, {"id"})] : n \in Range(doc.nodes) }
  /\ Len(g.edges) = Len(doc.links)
  /\ Range(g.edges) = { [source |-> l.source, target |-> l.target,
                         attrs |-> DictWithout(l, {"source", "target"})] :
                        l \in Range(doc.links) }

OtherInstances(state, parent_id) ==
  SelectSeq(state.nodes, LAMBDA n : ~("parent_id" \in DOMAIN n.attrs
                                       /\ n.attrs["parent_id"] = parent_id))

\* what a reconciliation of parent_id to target_count may change from old to new
ReconcileFrame(old, new, parent_id, target_count) ==
  /\ Len(InstancesOf(new, parent_id)) = target_count
  /\ Len(InstancesOf(old, parent_id)) = target_count => new = old
  /\ OtherInstances(new, parent_id) = OtherInstances(old, parent_id)
  /\ Len(InstancesOf(old, parent_id)) < target_count =>
        \A i \in DOMAIN InstancesOf(old, parent_id) :
           InstancesOf(new, parent_id)[i] = InstancesOf(old, parent_id)[i]
  /\ new.edges = old.edges

\* the targets and expiries the reconciliation is called with
Targets == 0..2
Expiries == {None, Some(5)}

LoadsFile(file, file_after, graph) ==
  IF Readable(file) THEN file_after = file /\ graph = node_link_graph(file.data)
  ELSE graph = DiGraph

\* C35: the load of a thread returns, for each of the two live files, the
\* stored graph when the file is readable and the empty graph when it is
\* missing or undecodable, and leaves the content of a readable file alone
C35_LoadKeepsOtherFile ==
  [][\A t \in Threads :
        (pc[t] = "load" /\ pc'[t] = "check_ts") =>
           LET version == Change(t)["version"]
           IN /\ LoadsFile(disk[version].live_schema, disk'[version].live_schema,
                           schema_data'[t])
              /\ LoadsFile(disk[version].live_state, disk'[version].live_state,
                           state_data'[t])]_vars

(***************************************************************************)
(* The processing map                                                      *)
(***************************************************************************)
\* thread t is inside process_schema_change for version v: it has registered
\* its timestamp and has not yet run the finally block
Applying(t, v) == pc[t] \in {"flock"} \cup InApply /\ Change(t)["version"] = v

\* C36: PROCESSING_TIMESTAMPS has an entry for version v exactly while some
\* thread is inside process_schema_change for v, and the entry is the
\* timestamp of such a thread's payload
C36_ProcessingMapTracksApply ==
  \A v \in Versions :
     /\ v \in DOMAIN PROCESSING_TIMESTAMPS <=> \E t \in Threads : Applying(t, v)
     /\ v \in DOMAIN PROCESSING_TIMESTAMPS =>
           \E t \in Threads :
              Applying(t, v) /\ PROCESSING_TIMESTAMPS[v] = Change(t)["timestamp"]

(***************************************************************************)
(* Truncation next to producers and workers                                *)
(***************************************************************************)
\* the items a truncation of version is to leave in the pending list
Survives(item, version) ==
  IF item \in NonObject THEN TRUE ELSE truncate_keeps(item, version)

\* C37: the execute of a truncation puts no item into the pending list that
\* was not in it (an item a worker took in the meantime is not put back), and
\* takes no item out of it that the truncation is to keep (an item of another
\* version pushed in the meantime stays)
C37_TruncateLosesNothing ==
  [][(~IsNone(truncating) /\ IsNone(truncating')) =>
        \A item \in Range(changes) \cup Range(changes') :
           /\ Occurrences(changes', item) <= Occurrences(changes, item)
           /\ Survives(item, Val(truncating).version) =>
                 Occurrences(changes', item) = Occurrences(changes, item)]_vars

(***************************************************************************)
(* The in-flight list between items                                        *)
(***************************************************************************)
\* C38: in a run without a process stop, whenever every worker thread is
\* waiting for a new item the in-flight list is empty: each handled item was
\* taken out of it, whatever the outcome
C38_InFlightEmptyWhenIdle ==
  (stops = 0 /\ \A t \in Threads : Idle(t)) => changes_processing = << >>

(***************************************************************************)
(* Progress of the workers.  The specification has the producers and the   *)
(* two worker threads and no process stop.  A thread that can take a step  *)
(* other than the flock eventually takes one (weak fairness: a running     *)
(* thread is scheduled).  A thread blocked in fcntl.flock gets the lock    *)
(* when it is released often enough (strong fairness): the kernel wakes    *)
(* the blocked caller at the release, and a thread that has just released  *)
(* the lock after a failure sleeps for a second before it takes the next   *)
(* item.                                                                   *)
(***************************************************************************)
\* the envelopes pushed in the progress specification: one whose apply
\* always succeeds, one that fails while node A is absent, and one that
\* fails on every attempt because it has no version
LiveItems == {1, 2} \cup Unversioned

\* a step of main_worker other than the blocking flock
main_worker(t) ==
  \/ lmove(t)
  \/ lrem_invalid(t)
  \/ process_change(t)
  \/ load(t)
  \/ check_timestamp(t)
  \/ save_open(t)
  \/ save_dump(t)
  \/ dispatch(t)
  \/ release_lock(t)
  \/ ack(t)
  \/ requeue_lrem(t)
  \/ requeue_rpush(t)

NextLive ==
  \/ start_worker
  \/ livestate_worker
  \/ \E item \in Malformed : rpush_raw(item)
  \/ \E item \in LiveItems : queue_live_schema_update(item)
  \/ \E t \in Threads : main_worker(t)
  \/ \E t \in Threads : acquire_lock(t)

Fairness ==
  /\ WF_vars(start_worker)
  /\ WF_vars(livestate_worker)
  /\ \A t \in Threads : WF_vars(main_worker(t))
  /\ \A t \in Threads : SF_vars(acquire_lock(t))

SpecLive == Init /\ [][NextLive]_vars /\ Fairness

\* every pushed copy of the item was applied and none is pending or in flight
Settled(item) ==
  /\ Occurrences(applied, item) = Occurrences(pushed, item)
  /\ item \notin Range(changes)
  /\ item \notin Range(changes_processing)

\* C39: under fair scheduling and without a process stop, every pushed copy
\* of the node create (whose apply succeeds whenever it is attempted) is
\* eventually applied and acknowledged, and so is every pushed copy of the
\* node update unless one of its attempts failed, also with an item in the
\* pending list that fails on every attempt
C39_GoodItemsApplied ==
  /\ (1 \in Range(pushed)) ~> Settled(1)
  /\ (2 \in Range(pushed)) ~> (requeues[2] > 0 \/ Settled(2))

\* the envelope without a version was pushed first and the create behind it;
\* the create was applied at its first attempt and acknowledged, and the
\* failing envelope is back in the pending list
C39_Witness ==
  /\ pushed = << 6, 1 >>
  /\ applied = << 1 >> /\ requeues[1] = 0
  /\ changes = << 6 >> /\ changes_processing = << >>
  /\ \A t \in Threads : pc[t] = "poll"

(***************************************************************************)
(* The redis read/write lock of src/server/utils/locks.py, for one lock    *)
(* key.  The redis client is synchronous, so a task runs from one await to *)
(* the next without interleaving: one attempt of the acquire loop is one   *)
(* step, and so is a release.  Key expiry is left out.                     *)
(***************************************************************************)
\* everything but the lock
app == << changes, changes_processing, disk, CURRENT_TIMESTAMP, PROCESSING_TIMESTAMPS,
          flock, threads_started, pc, change_data_raw, schema_data, state_data, saving,
          process_result, stops, pushed, applied, applies, before, handled, requeues,
          truncating, truncated, truncates >>

\* redis INCR and DECR: a missing key counts as 0
incr(key) == IF IsNone(key) THEN Some(1) ELSE Some(Val(key) + 1)
decr(key) == IF IsNone(key) THEN Some(0 - 1) ELSE Some(Val(key) - 1)

\* "async with read_lock(version)" / "async with write_lock(version)" is entered
enter(k, kind) ==
  /\ task[k].pc = "out"
  /\ task' = [task EXCEPT ![k] = [pc |-> "acquire", kind |-> kind, attempt |-> 0,
                                  yielded |-> FALSE]]
  /\ UNCHANGED << app, write_lock_key, read_count_key >>

\* the outcome of an attempt that found the lock taken: sleep and try again, or
\* return False at the last attempt; the block is then run with False
Blocked(k) ==
  IF task[k].attempt < lock_max_retries - 1
  THEN [task EXCEPT ![k].attempt = @ + 1]
  ELSE [task EXCEPT ![k].pc = "inside", ![k].yielded = FALSE]

\* one attempt of ReadWriteLock.acquire_read
acquire_read(k) ==
  /\ task[k].pc = "acquire" /\ task[k].kind = "read"
  /\ IF write_lock_key
     THEN /\ task' = Blocked(k)
          /\ UNCHANGED read_count_key
     ELSE /\ read_count_key' = incr(read_count_key)
          /\ task' = [task EXCEPT ![k].pc = "inside", ![k].yielded = TRUE]
  /\ UNCHANGED << app, write_lock_key >>

\* one attempt of ReadWriteLock.acquire_write
acquire_write(k) ==
  /\ task[k].pc = "acquire" /\ task[k].kind = "write"
  /\ IF ~IsNone(read_count_key) \/ write_lock_key
     THEN /\ task' = Blocked(k)
          /\ UNCHANGED write_lock_key
     ELSE /\ write_lock_key' = TRUE
          /\ task' = [task EXCEPT ![k].pc = "inside", ![k].yielded = TRUE]
  /\ UNCHANGED << app, read_count_key >>

\* the finally of read_lock: release_read, whatever acquire_read returned
release_read(k) ==
  /\ task[k].pc = "inside" /\ task[k].kind = "read"
  /\ read_count_key' = IF Val(decr(read_count_key)) <= 0 THEN None ELSE decr(read_count_key)
  /\ task' = [task EXCEPT ![k].pc = "out", ![k].yielded = FALSE]
  /\ UNCHANGED << app, write_lock_key >>

\* the finally of write_lock: release_write, whatever acquire_write returned
release_write(k) ==
  /\ task[k].pc = "inside" /\ task[k].kind = "write"
  /\ write_lock_key' = FALSE
  /\ task' = [task EXCEPT ![k].pc = "out", ![k].yielded = FALSE]
  /\ UNCHANGED << app, read_count_key >>

NextLocks ==
  \/ \E k \in Tasks, kind \in {"read", "write"} : enter(k, kind)
  \/ \E k \in Tasks : acquire_read(k)
  \/ \E k \in Tasks : acquire_write(k)
  \/ \E k \in Tasks : release_read(k)
  \/ \E k \in Tasks : release_write(k)

SpecLocks == Init /\ [][NextLocks]_vars

\* task k is inside a block of the kind that yielded True
Holds(k, kind) == task[k].pc = "inside" /\ task[k].kind = kind /\ task[k].yielded

\* C40: no task is inside a write_lock block that yielded True while another
\* task is inside a write_lock or read_lock block that yielded True
C40_WriterExcludesAll ==
  \A k \in Tasks :
     Holds(k, "write") =>
        \A j \in Tasks \ {k} : ~Holds(j, "write") /\ ~Holds(j, "read")

====
